---------------------------- MODULE Spec2Model ----------------------------
(***************************************************************************)
(* State-machine model of srodbpy (src/main.py): the three database        *)
(* workers (BackupWorker, RestoreWorker, DropRateWorker), the window that  *)
(* starts them (RareDropTool) and the four relations they write.           *)
(*                                                                         *)
(* The store is SQL Server reached through one connection per run with     *)
(* autocommit off: `db' is the committed content, `tx' is what the running *)
(* worker's connection sees.  conn.commit() copies tx to db; a run that    *)
(* raises never commits and its connection is dropped, so tx is discarded. *)
(* Names are TLA+ strings; LIKE is matched character by character with the *)
(* SQL wildcards % and _.                                                  *)
(***************************************************************************)
EXTENDS Integers, Sequences, FiniteSets, Bags, TLC

VARIABLES
    catalog,    \* _RefObjCommon and _RefObjChar (read-only reference data)
    db,         \* committed content of the two live and two backup relations
    tx,         \* content seen by the running worker's connection
    worker,     \* RareDropTool.worker: "none", or the kind of the running QThread
    pc,         \* position of the running worker inside run()
    cfg,        \* constructor arguments of the running DropRateWorker
    loc,        \* local variables of run()
    emitted,    \* signals emitted by the current run, in order
    ops,        \* statements issued on the connection by the current run, in order
    finishedQ,  \* finished(bool, str) signals queued for the window's thread
    buttons,    \* enabled state of the Apply / Test / Backup / Restore buttons
    dialog,     \* title of the message box shown last ("none" once dismissed)
    second,     \* a second worker object started by a caller other than the window
    budget,     \* runs that may still be started
    hist        \* history: what the last runs did (read by the properties only)

vars == <<catalog, db, tx, worker, pc, cfg, loc, emitted, ops, finishedQ,
          buttons, dialog, second, budget, hist>>

-----------------------------------------------------------------------------
(* Bounds of the model *)

MaxRuns == 3
MaxLevelDistance == 1
MaxMonsterLevel == 9
MaxBatches == 2

-----------------------------------------------------------------------------
(* Strings *)

CharAt(s, i) == SubSeq(s, i, i)

StartsWith(s, p) == Len(s) >= Len(p) /\ SubSeq(s, 1, Len(p)) = p

\* T-SQL LIKE: % matches any run of characters, _ any single character.
RECURSIVE LikeFrom(_, _, _, _)
LikeFrom(s, p, i, j) ==
    IF j > Len(p) THEN i > Len(s)
    ELSE IF CharAt(p, j) = "%"
         THEN \E k \in i..(Len(s) + 1) : LikeFrom(s, p, k, j + 1)
    ELSE IF i > Len(s) THEN FALSE
    ELSE IF CharAt(p, j) = "_" THEN LikeFrom(s, p, i + 1, j + 1)
    ELSE CharAt(s, i) = CharAt(p, j) /\ LikeFrom(s, p, i + 1, j + 1)

Like(s, p) == LikeFrom(s, p, 1, 1)

Digits == <<"0", "1", "2", "3", "4", "5", "6", "7", "8", "9">>

IsDigit(c) == \E d \in 1..10 : Digits[d] = c

DigitVal(c) == (CHOOSE d \in 1..10 : Digits[d] = c) - 1

\* str.isdigit(): non-empty and all characters digits
IsDigits(s) == Len(s) > 0 /\ \A i \in 1..Len(s) : IsDigit(CharAt(s, i))

RECURSIVE ParseNat(_, _)
ParseNat(s, n) ==
    IF n = 0 THEN 0 ELSE ParseNat(s, n - 1) * 10 + DigitVal(CharAt(s, n))

\* int(s): an optional sign and decimal digits; ok = FALSE stands for ValueError
IntOfStr(s) ==
    LET signed == Len(s) > 0 /\ CharAt(s, 1) \in {"-", "+"}
        body   == IF signed THEN SubSeq(s, 2, Len(s)) ELSE s
        n      == ParseNat(body, Len(body))
    IN  IF IsDigits(body)
        THEN [ok |-> TRUE, val |-> IF signed /\ CharAt(s, 1) = "-" THEN 0 - n ELSE n]
        ELSE [ok |-> FALSE, val |-> 0]

\* str.strip() for blanks
RECURSIVE StripStr(_)
StripStr(s) ==
    IF Len(s) > 0 /\ CharAt(s, 1) = " " THEN StripStr(SubSeq(s, 2, Len(s)))
    ELSE IF Len(s) > 0 /\ CharAt(s, Len(s)) = " " THEN StripStr(SubSeq(s, 1, Len(s) - 1))
    ELSE s

-----------------------------------------------------------------------------
(* Sequences and bags *)

\* F applied to the value of e, e evaluated once (as a Python expression is)
Bind(e, F(_)) == CHOOSE r \in {F(x) : x \in {e}} : TRUE

\* The bag of the elements of a sequence
BagOfSeq(s) ==
    [x \in {s[i] : i \in DOMAIN s} |-> Cardinality({i \in DOMAIN s : s[i] = x})]

\* The rows of bag b that satisfy P, with their multiplicities
BagWhere(b, P(_)) == [r \in {x \in DOMAIN b : P(x)} |-> b[r]]

\* The elements of a finite set of records, ordered by their ID column (ID is the
\* key of _RefObjCommon: no two rows of a result share it)
OrderByID(S) ==
    Bind(S, LAMBDA T : [k \in 1..Cardinality(T) |->
                          CHOOSE x \in T : Cardinality({y \in T : y.ID < x.ID}) = k - 1])

Max2(a, b) == IF a >= b THEN a ELSE b

RECURSIVE Pow(_, _)
Pow(b, k) == IF k = 0 THEN 1 ELSE b * Pow(b, k - 1)

Gcd(a, b) ==
    LET G[p \in Int \X Int] == IF p[2] = 0 THEN p[1] ELSE G[<<p[2], p[1] % p[2]>>]
    IN  G[<<a, b>>]

-----------------------------------------------------------------------------
(* Numbers.  SelectRatio is the IEEE-754 double 1.0 / n, kept exactly as   *)
(* mantissa (hi * 2^27 + lo, 53 bits) and exponent: value = mant * 2^-exp. *)
(* Probabilities entered in the form and the drop ratios derived from them *)
(* are exact fractions num/den in lowest terms.                            *)

Limb == 134217728   \* 2^27

\* smallest j with 2^j >= n
RECURSIVE CeilLog2(_)
CeilLog2(n) == IF n <= 1 THEN 0 ELSE 1 + CeilLog2((n + 1) \div 2)

\* 1.0 / n, round-to-nearest-even, for 1 <= n <= 15
FloatRecip(n) ==
    LET e    == 52 + CeilLog2(n)
        top  == Pow(2, e - 27)
        hi0  == top \div n
        r1   == top % n
        lo0  == (r1 * Limb) \div n
        r    == (r1 * Limb) % n
        up   == 2 * r > n \/ (2 * r = n /\ lo0 % 2 = 1)
        lo1  == IF up THEN lo0 + 1 ELSE lo0
    IN  [hi  |-> IF lo1 = Limb THEN hi0 + 1 ELSE hi0,
         lo  |-> IF lo1 = Limb THEN 0 ELSE lo1,
         exp |-> e]

\* count * w - 1, in units of 2^-w.exp (the exact sum of count copies of w, minus 1)
SumDeviation(w, count) ==
    LET low  == count * w.lo
        high == count * w.hi + (low \div Limb)
    IN  (high - Pow(2, w.exp - 27)) * Limb + (low % Limb)

Frac(n, d) == LET g == Gcd(n, d) IN [num |-> n \div g, den |-> d \div g]

FracLeq(a, b) == a.num * b.den <= b.num * a.den

FracMul(a, b) == Frac(a.num * b.num, a.den * b.den)

\* float("nan"): the double that is not a number.  Every comparison with it is
\* False in Python.
NaN == [num |-> 0, den |-> 0]

IsNaN(x) == x.den = 0

\* float(s) of a plain decimal ("0.01", "-1", "50", ".5") or of "nan" in one of its
\* spellings; ok = FALSE stands for ValueError.  The value of a decimal is kept as
\* the fraction the text denotes.
FloatOfStr(s) ==
    LET neg   == Len(s) > 0 /\ CharAt(s, 1) = "-"
        body  == IF neg THEN SubSeq(s, 2, Len(s)) ELSE s
        dots  == {i \in 1..Len(body) : CharAt(body, i) = "."}
        dot   == IF dots = {} THEN Len(body) + 1 ELSE CHOOSE i \in dots : TRUE
        ip    == SubSeq(body, 1, dot - 1)
        fp    == SubSeq(body, dot + 1, Len(body))
        all   == ip \o fp
        n     == ParseNat(all, Len(all))
    IN  IF s \in {"nan", "NaN", "NAN", "+nan", "-nan"} THEN [ok |-> TRUE, val |-> NaN]
        ELSE IF Cardinality(dots) <= 1 /\ IsDigits(all)
        THEN [ok |-> TRUE, val |-> Frac(IF neg THEN 0 - n ELSE n, Pow(10, Len(fp)))]
        ELSE [ok |-> FALSE, val |-> Frac(0, 1)]

\* (1 - decrease_pct / 100) ** levels_above_threshold, one factor at a time.  A
\* power that has fallen below 1/100 is kept as 0: it stays below 1/100 and the
\* floor replaces it whatever the remaining factors are.
PowerFrom(acc, factor, k) ==
    LET P[p \in [num : Int, den : Int] \X Nat] ==
            IF p[2] = 0 \/ p[1].num = 0 THEN p[1]
            ELSE LET g == FracMul(p[1], factor)
                 IN  P[<<IF g.num * 100 < g.den THEN Frac(0, 1) ELSE g, p[2] - 1>>]
    IN  P[<<acc, k>>]

\* variant: the factor is multiplied by the number of levels instead of raised to it
DecreaseFactorTimes(decrease_pct, levels_above_threshold) ==
    Frac((100 * decrease_pct.den - decrease_pct.num) * levels_above_threshold,
         100 * decrease_pct.den)

DecreaseFactor(decrease_pct, levels_above_threshold) ==
    PowerFrom(Frac(1, 1),
              Frac(100 * decrease_pct.den - decrease_pct.num, 100 * decrease_pct.den),
              levels_above_threshold)

-----------------------------------------------------------------------------
(* Reference data: _RefObjCommon (items and monsters) and _RefObjChar.     *)
(* A NULL column is the empty tuple, a value v the tuple <<v>>.            *)

NullCol == <<>>

Col(v) == <<v>>

ObjCommon(id, name, service, typeid1, reqlevel, country, link) ==
    [ID |-> id, CodeName128 |-> name, Service |-> service, TypeID1 |-> typeid1,
     ReqLevel1 |-> reqlevel, Country |-> country, Link |-> link]

ObjChar(id, lvl) == [ID |-> id, Lvl |-> lvl]

\* The rare-type letter each checkbox of the form stands for (apply_drop_rates)
StarType == "A"

MoonType == "B"

SunType == "C"

\* DropRateWorker.get_region
get_region(country) ==
    IF country \in {0, 3} THEN "CN"
    ELSE IF country = 1 THEN "EU"
    ELSE "R" \o ToString(country)

\* SELECT ID, ReqLevel1, Country FROM _RefObjCommon WHERE CodeName128 LIKE
\* '%_<rare_type>_RARE%' AND Service = 1 AND TypeID1 = 3 AND ReqLevel1 IS NOT NULL
ItemQuery(cat, rare_type) ==
    OrderByID({c \in cat.common :
                  /\ Like(c.CodeName128, "%_" \o rare_type \o "_RARE%")
                  /\ c.Service = 1
                  /\ c.TypeID1 = 3
                  /\ c.ReqLevel1 # NullCol})

\* The WHERE clause on c.Country of the three monster queries of the region-aware
\* branch, chosen by region_filter; the region-mixing branch has none.
CountryClause(country_mixture, region_filter, country) ==
    IF country_mixture THEN TRUE
    ELSE IF region_filter = "CN" THEN country \in {0, 3}
    ELSE IF region_filter = "EU" THEN country = 1
    ELSE country = IntOfStr(SubSeq(region_filter, 2, Len(region_filter))).val

\* int(region_filter[1:]) raises ValueError for a region that is not R<digits>
RegionParses(country_mixture, region_filter) ==
    \/ country_mixture
    \/ region_filter \in {"CN", "EU"}
    \/ IntOfStr(SubSeq(region_filter, 2, Len(region_filter))).ok

\* SELECT c.ID, ch.Lvl FROM _RefObjCommon c JOIN _RefObjChar ch ON c.Link = ch.ID
\* WHERE c.CodeName128 LIKE 'MOB_%' AND c.TypeID1 = 1 AND c.Service = 1
\*   [AND c.Country ...] AND ch.Lvl BETWEEN min_level AND max_level
MonsterQuery(cat, country_mixture, region_filter, min_level, max_level) ==
    LET joined == {[ID |-> c.ID, Lvl |-> ch.Lvl] :
                      <<c, ch>> \in {p \in cat.common \X cat.char :
                          /\ p[1].Link = p[2].ID
                          /\ Like(p[1].CodeName128, "MOB_%")
                          /\ p[1].TypeID1 = 1
                          /\ p[1].Service = 1
                          /\ CountryClause(country_mixture, region_filter, p[1].Country)
                          /\ p[2].Lvl >= min_level
                          /\ p[2].Lvl <= max_level}}
    IN  OrderByID(joined)

-----------------------------------------------------------------------------
(* The written relations.  A relation is a bag of rows; a backup relation  *)
(* may be absent.                                                          *)

GroupRow(service, group_id, group_name, item_id, select_ratio, magic_group) ==
    [Service |-> service, RefItemGroupID |-> group_id, CodeName128 |-> group_name,
     RefItemID |-> item_id, SelectRatio |-> select_ratio,
     RefMagicGroupID |-> magic_group]

AssignRow(service, monster_id, group_id, group_name, overlap, drop_min, drop_max, drop_ratio, p1, p2) ==
    [Service |-> service, RefMonsterID |-> monster_id, RefItemGroupID |-> group_id,
     ItemGroupCodeName128 |-> group_name, Overlap |-> overlap,
     DropAmountMin |-> drop_min, DropAmountMax |-> drop_max,
     DropRatio |-> drop_ratio, param1 |-> p1, param2 |-> p2]

Absent == [exists |-> FALSE, rows |-> EmptyBag]

Table(rows) == [exists |-> TRUE, rows |-> rows]

\* DELETE FROM _RefDropItemGroup WHERE CodeName128 LIKE 'RARE_%'
DeleteRareGroups(rows) == BagWhere(rows, LAMBDA r : ~Like(r.CodeName128, "RARE_%"))

\* variant: the DELETE on the assignment relation removes no row
DeleteRareAssignmentsNone(rows) == rows

\* DELETE FROM _RefMonster_AssignedItemRndDrop WHERE ItemGroupCodeName128 LIKE 'RARE_%'
DeleteRareAssignments(rows) ==
    BagWhere(rows, LAMBDA r : ~Like(r.ItemGroupCodeName128, "RARE_%"))

\* variant: the maximum is never found and "or 0" always applies
MaxGroupIDNone(rows) == 0

\* SELECT MAX(RefItemGroupID) FROM _RefDropItemGroup, then "or 0"
MaxGroupID(rows) ==
    IF DOMAIN rows = {} THEN 0
    ELSE CHOOSE m \in {r.RefItemGroupID : r \in DOMAIN rows} :
             \A r \in DOMAIN rows : r.RefItemGroupID <= m

\* variant: a backup relation is counted twice when only one of the two exists
BackupTableCountEither(d) ==
    IF d.grpBak.exists \/ d.asgBak.exists THEN 2 ELSE 0

\* variant: the count of backup relations always comes back as 0
BackupTableCountNone(d) == 0

\* SELECT COUNT(*) FROM INFORMATION_SCHEMA.TABLES WHERE TABLE_NAME IN (both backups)
BackupTableCount(d) ==
    (IF d.grpBak.exists THEN 1 ELSE 0) + (IF d.asgBak.exists THEN 1 ELSE 0)

\* IF OBJECT_ID(backup) IS NOT NULL DROP TABLE backup
DropIfExists(t) == Absent

\* SELECT * INTO backup FROM live
SelectInto(rows) == Table(rows)

-----------------------------------------------------------------------------
(* DropRateWorker.run: the in-memory steps.  A Python dict is a sequence   *)
(* of [key, val] entries in insertion order.                               *)

GroupBatchSize == 300

AssignBatchSize == 200

\* SQL Server limit: 2100 parameters per query
ParameterLimit == 2100

\* variant: the membership test never finds the key
HasKeyNever(dict, key) == FALSE

HasKey(dict, key) == \E i \in 1..Len(dict) : dict[i].key = key

Lookup(dict, key) == dict[CHOOSE i \in 1..Len(dict) : dict[i].key = key].val

\* key of an item: (rare_type, item_level) or (rare_type, item_level, region)
ItemKey(country_mixture, rare_type, item) ==
    IF country_mixture THEN <<rare_type, item.ReqLevel1[1]>>
    ELSE <<rare_type, item.ReqLevel1[1], get_region(item.Country)>>

\* items_by_type_level[key].append(item_id), creating the list when the key is new
AppendItem(dict, key, item_id) ==
    IF HasKey(dict, key)
    THEN [i \in 1..Len(dict) |->
             IF dict[i].key = key
             THEN [key |-> key, val |-> Append(dict[i].val, item_id)]
             ELSE dict[i]]
    ELSE Append(dict, [key |-> key, val |-> <<item_id>>])

\* the for-loop over the rows fetched for one rare type
CollectItems(dict, country_mixture, rare_type, items) ==
    LET Filed(rows) ==
            LET D[k \in 0..Len(rows)] ==
                    IF k = 0 THEN dict
                    ELSE Bind(D[k - 1],
                              LAMBDA d : AppendItem(d, ItemKey(country_mixture, rare_type,
                                                               rows[k]),
                                                    rows[k].ID))
            IN  D[Len(rows)]
    IN  Bind(items, Filed)

\* f"RARE_{rare_type}_LVL_{level}" or f"RARE_{rare_type}_LVL_{level}_{region}"
GroupName(country_mixture, key) ==
    IF country_mixture
    THEN "RARE_" \o key[1] \o "_LVL_" \o ToString(key[2])
    ELSE "RARE_" \o key[1] \o "_LVL_" \o ToString(key[2]) \o "_" \o key[3]

\* variant: the divisor is one too large
SelectRatioOfNext(item_ids) == FloatRecip(Len(item_ids) + 1)

\* select_ratio = 1.0 / len(item_ids)
SelectRatioOf(item_ids) == FloatRecip(Len(item_ids))

\* the rows appended to group_entries for one key
GroupEntriesOf(group_id, group_name, item_ids) ==
    [i \in 1..Len(item_ids) |->
        GroupRow(1, group_id, group_name, item_ids[i], SelectRatioOf(item_ids), 0)]

\* variant: the identifier is advanced before it is recorded for the key
CreatedGroupsShifted(dict, next_group_id) ==
    [i \in 1..Len(dict) |-> [key |-> dict[i].key, val |-> next_group_id + i]]

\* created_groups: the i-th key of items_by_type_level gets next_group_id + i - 1
CreatedGroups(dict, next_group_id) ==
    [i \in 1..Len(dict) |-> [key |-> dict[i].key, val |-> next_group_id + i - 1]]

RECURSIVE GroupEntries(_, _, _)
GroupEntries(dict, country_mixture, next_group_id) ==
    IF dict = <<>> THEN <<>>
    ELSE GroupEntriesOf(next_group_id, GroupName(country_mixture, Head(dict).key),
                        Head(dict).val)
         \o GroupEntries(Tail(dict), country_mixture, next_group_id + 1)

\* variant: the test level_threshold > 0 is left out
AdjustedDropRatioAnyThreshold(drop_ratio, monster_level, level_threshold, decrease_pct) ==
    IF decrease_pct.num > 0 /\ monster_level > level_threshold
    THEN LET levels_above_threshold == monster_level - level_threshold
             decrease_factor == DecreaseFactor(decrease_pct, levels_above_threshold)
             adjusted == FracMul(drop_ratio, decrease_factor)
             floor    == FracMul(drop_ratio, Frac(1, 100))
         IN  IF FracLeq(floor, adjusted) THEN adjusted ELSE floor
    ELSE drop_ratio

\* variant: the floor of 1% of the base ratio is left out
AdjustedDropRatioNoFloor(drop_ratio, monster_level, level_threshold, decrease_pct) ==
    IF level_threshold > 0 /\ decrease_pct.num > 0 /\ monster_level > level_threshold
    THEN FracMul(drop_ratio,
                 DecreaseFactor(decrease_pct, monster_level - level_threshold))
    ELSE drop_ratio

\* adjusted_drop_ratio of one monster (decrease_pct > 0 is False for NaN, whose
\* numerator is 0)
AdjustedDropRatio(drop_ratio, monster_level, level_threshold, decrease_pct) ==
    IF level_threshold > 0 /\ decrease_pct.num > 0 /\ monster_level > level_threshold
    THEN LET levels_above_threshold == monster_level - level_threshold
             decrease_factor == DecreaseFactor(decrease_pct, levels_above_threshold)
             adjusted == FracMul(drop_ratio, decrease_factor)
             floor    == FracMul(drop_ratio, Frac(1, 100))
         IN  IF FracLeq(floor, adjusted) THEN adjusted ELSE floor
    ELSE drop_ratio

MinLevel(level, level_distance) == Max2(0, level - level_distance)

\* variant: the upper end of the window is exclusive
MaxLevelExclusive(level, level_distance) == level + level_distance - 1

MaxLevel(level, level_distance) == level + level_distance

\* the rows appended to assignments for one created group and its fetched monsters
AssignmentsOf(c, key, group_id, monsters) ==
    [i \in 1..Len(monsters) |->
        AssignRow(1, monsters[i].ID, group_id, GroupName(c.country_mixture, key),
                  0, 1, 1,
                  AdjustedDropRatio(Lookup(c.probabilities, key[1]), monsters[i].Lvl,
                                    c.level_threshold, c.decrease_pct),
                  0, 0)]

\* the monsters fetched for one created group
MonstersOf(cat, c, key) ==
    MonsterQuery(cat, c.country_mixture,
                 IF c.country_mixture THEN "" ELSE key[3],
                 MinLevel(key[2], c.level_distance),
                 MaxLevel(key[2], c.level_distance))

\* variant: the slice stops one row short (list[i : i + batch_size - 1])
BatchShort(list, i, batch_size) ==
    SubSeq(list, i + 1,
           IF i + batch_size - 1 < Len(list) THEN i + batch_size - 1 ELSE Len(list) - 1)

\* variant: the slice has no upper end (list[i:])
BatchToEnd(list, i, batch_size) ==
    SubSeq(list, i + 1, Len(list))

\* rows i+1 .. i+batch_size of a list (list[i : i + batch_size])
Batch(list, i, batch_size) ==
    SubSeq(list, i + 1, IF i + batch_size < Len(list) THEN i + batch_size ELSE Len(list))

\* variant: the share is not scaled to the span of the phase
ShareOfHundred(inserted, total, span) == (inserted * 100) \div total

\* int((inserted / total) * span): the progress share of a batch
Share(inserted, total, span) == (inserted * span) \div total

-----------------------------------------------------------------------------
(* Signals and the run's bookkeeping *)

Progress(msg) == [sig |-> "progress", msg |-> msg, pct |-> 0, ok |-> TRUE]

ProgressPercent(pct, eta) ==
    [sig |-> "progress_percent", msg |-> eta, pct |-> pct, ok |-> TRUE]

Finished(success, msg) == [sig |-> "finished", msg |-> msg, pct |-> 0, ok |-> success]

NoCfg ==
    [rare_types |-> <<>>, probabilities |-> <<>>, level_distance |-> 0,
     country_mixture |-> TRUE, level_threshold |-> 0, decrease_pct |-> Frac(0, 1)]

InitLoc ==
    [backup_exists |-> FALSE, ti |-> 0, items_by_type_level |-> <<>>,
     item_count |-> 0, deleted_groups |-> 0, next_group_id |-> 0,
     created_groups |-> <<>>, group_entries |-> <<>>, i |-> 0,
     inserted_items |-> 0, deleted_assignments |-> 0, ki |-> 0,
     assignments |-> <<>>, inserted_assignments |-> 0,
     group_count |-> 0, assignment_count |-> 0,
     backup_group_count |-> 0, backup_assignment_count |-> 0]

NoSecond == [kind |-> "none", pc |-> "idle", statements |-> 0]

AllEnabled == [apply |-> TRUE, test |-> TRUE, backup |-> TRUE, restore |-> TRUE]

\* variant: the Backup button is left enabled when a worker is started
AllDisabledButBackup ==
    [apply |-> FALSE, test |-> FALSE, backup |-> TRUE, restore |-> FALSE]

AllDisabled == [apply |-> FALSE, test |-> FALSE, backup |-> FALSE, restore |-> FALSE]

Live(d) == [grp |-> d.grp, asg |-> d.asg]

Running(kind, at) == worker = kind /\ pc = at

\* one more step of run(): statements issued, signals emitted, position moved
Step(next_pc, stmts, signals) ==
    /\ pc' = next_pc
    /\ ops' = ops \o stmts
    /\ emitted' = emitted \o signals

Frame ==
    UNCHANGED <<catalog, db, worker, cfg, finishedQ, buttons, dialog, second, budget, hist>>

\* run() returns after emitting finished: the thread ends, the signal is queued
\* for the window.  A run that ends without conn.commit() loses its connection
\* with the transaction open, and the server rolls it back.
EndRun(success, msg, signals) ==
    /\ worker' = "none"
    /\ pc' = "idle"
    /\ emitted' = emitted \o signals \o <<Finished(success, msg)>>
    /\ finishedQ' = Append(finishedQ, [kind |-> worker, ok |-> success, msg |-> msg])

NoSnap == [grp |-> EmptyBag, asg |-> EmptyBag]

\* no successful sync to compare with
NoSync == [cfg |-> NoCfg, live |-> NoSnap]

\* a run that failed breaks the backup / sync / restore sequence the history follows
Forget ==
    [hist EXCEPT !.since = "none", !.snap = NoSnap, !.synced = NoSnap,
                 !.prev = NoSync, !.last = NoSync]

\* the text each run() puts before str(e) in its failure message
FailurePrefix(kind) ==
    IF kind = "backup" THEN "Backup failed: "
    ELSE IF kind = "restore" THEN "Restore failed: "
    ELSE "Error: "

\* what str(e) is when the driver raises
DriverError == "DatabaseError"

\* variant: the exception is caught where it is raised and run() goes on
RaiseSwallowed(e, stmts) ==
    /\ ops' = ops \o stmts
    /\ hist' = [hist EXCEPT !.raised = <<e>>]
    /\ UNCHANGED <<catalog, db, tx, worker, pc, cfg, loc, emitted, finishedQ, buttons,
                   dialog, second, budget>>

\* variant: the except clause ends the run without emitting finished
RaiseSilent(e, stmts) ==
    /\ worker' = "none"
    /\ pc' = "idle"
    /\ ops' = ops \o stmts
    /\ tx' = db
    /\ hist' = Forget
    /\ UNCHANGED <<catalog, db, cfg, loc, emitted, finishedQ, buttons, dialog, second,
                   budget>>

\* the except clause of run(): the statements issued so far in this step, then
\* finished(False, prefix + str(e)); nothing was committed by this step
Raise(e, stmts) ==
    /\ EndRun(FALSE, FailurePrefix(worker) \o e, <<>>)
    /\ ops' = ops \o stmts
    /\ tx' = db
    /\ hist' = [Forget EXCEPT !.raised = <<e>>]
    /\ UNCHANGED <<catalog, db, cfg, loc, buttons, dialog, second, budget>>

-----------------------------------------------------------------------------
(* DropRateWorker.run, statement by statement *)

Step1Signals ==
    <<Progress("Step 1/6: Collecting items"), ProgressPercent(5, "Analyzing...")>>

Step1DoneSignals ==
    <<Progress("Step 1 complete"), ProgressPercent(10, "Deleting old groups..."),
      Progress("Step 2/6: Deleting old rare drop groups...")>>

Step3DoneSignals ==
    <<Progress("Step 3 complete"), ProgressPercent(35, "Deleting old assignments..."),
      Progress("Step 4/6: Deleting old rare assignments...")>>

\* variant: the bar is set to 100 before the commit
Step5DoneSignalsComplete ==
    <<Progress("Step 5 complete"), ProgressPercent(100, "Committing..."),
      Progress("Step 6/6: Committing changes to database...")>>

Step5DoneSignals ==
    <<Progress("Step 5 complete"), ProgressPercent(90, "Committing..."),
      Progress("Step 6/6: Committing changes to database...")>>

\* "Collected N items..." is emitted each time item_count reaches a multiple of 100
CollectedSignals(before, after) ==
    [k \in 1..((after \div 100) - (before \div 100)) |-> Progress("Collected items")]

\* where run() goes once the backup is known to exist or has been made
EnterItems ==
    IF Len(cfg.rare_types) = 0
    THEN [at |-> "delete_groups", signals |-> Step1Signals \o Step1DoneSignals]
    ELSE [at |-> "items", signals |-> Step1Signals]

\* mssql_python.connect, conn.cursor() and the first two signals
DRW_Connect ==
    /\ Running("sync", "connect")
    /\ tx' = db
    /\ loc' = InitLoc
    /\ Step("check_backup", <<>>,
            <<Progress("Checking for backup..."), ProgressPercent(2, "Checking...")>>)
    /\ Frame

\* Step 0: do both backup relations exist?
DRW_CheckBackup ==
    /\ Running("sync", "check_backup")
    /\ LET backup_exists == BackupTableCount(tx) >= 2
       IN  /\ loc' = [loc EXCEPT !.backup_exists = backup_exists, !.ti = 1]
           /\ IF backup_exists
              THEN Step(EnterItems.at, <<"SELECT_TABLES">>, EnterItems.signals)
              ELSE Step("bak_drop_grp", <<"SELECT_TABLES">>,
                        <<Progress("Creating automatic backup before applying changes..."),
                          ProgressPercent(3, "Creating backup...")>>)
    /\ UNCHANGED tx
    /\ Frame

DRW_BackupDropGroups ==
    /\ Running("sync", "bak_drop_grp")
    /\ tx' = [tx EXCEPT !.grpBak = DropIfExists(@)]
    /\ Step("bak_copy_grp", <<"DROP_GRP_BAK">>, <<>>)
    /\ UNCHANGED loc
    /\ Frame

DRW_BackupCopyGroups ==
    /\ Running("sync", "bak_copy_grp")
    /\ tx' = [tx EXCEPT !.grpBak = SelectInto(tx.grp)]
    /\ Step("bak_drop_asg", <<"COPY_GRP_BAK">>, <<>>)
    /\ UNCHANGED loc
    /\ Frame

DRW_BackupDropAssignments ==
    /\ Running("sync", "bak_drop_asg")
    /\ tx' = [tx EXCEPT !.asgBak = DropIfExists(@)]
    /\ Step("bak_copy_asg", <<"DROP_ASG_BAK">>, <<>>)
    /\ UNCHANGED loc
    /\ Frame

DRW_BackupCopyAssignments ==
    /\ Running("sync", "bak_copy_asg")
    /\ tx' = [tx EXCEPT !.asgBak = SelectInto(tx.asg)]
    /\ Step(EnterItems.at, <<"COPY_ASG_BAK">>,
            <<Progress("Backup created successfully")>> \o EnterItems.signals)
    /\ UNCHANGED loc
    /\ Frame

\* Step 1: one item query per enabled rare type, rows filed under their key
DRW_Items ==
    /\ Running("sync", "items")
    /\ LET rare_type == cfg.rare_types[loc.ti]
           items     == ItemQuery(catalog, rare_type)
           count     == loc.item_count + Len(items)
           last      == loc.ti = Len(cfg.rare_types)
       IN  /\ loc' = [loc EXCEPT
                         !.items_by_type_level =
                             CollectItems(@, cfg.country_mixture, rare_type, items),
                         !.item_count = count,
                         !.ti = @ + 1]
           /\ Step(IF last THEN "delete_groups" ELSE "items",
                   <<"SELECT_ITEMS">>,
                   CollectedSignals(loc.item_count, count)
                       \o (IF last THEN Step1DoneSignals ELSE <<>>))
    /\ UNCHANGED tx
    /\ Frame

\* Step 2: delete the old rare drop groups
DRW_DeleteGroups ==
    /\ Running("sync", "delete_groups")
    /\ tx' = [tx EXCEPT !.grp = DeleteRareGroups(@)]
    /\ loc' = [loc EXCEPT !.deleted_groups =
                              BagCardinality(tx.grp) - BagCardinality(tx'.grp)]
    /\ Step("max_id", <<"DELETE_GRP">>,
            <<Progress("Deleted old rare drop group entries"),
              ProgressPercent(15, "Creating new groups..."),
              Progress("Step 3/6: Creating drop groups in _RefDropItemGroup...")>>)
    /\ Frame

\* Step 3: next free group id, then created_groups and group_entries are built
DRW_MaxGroupId ==
    /\ Running("sync", "max_id")
    /\ LET max_group_id  == MaxGroupID(tx.grp)
           next_group_id == max_group_id + 1
           entries == GroupEntries(loc.items_by_type_level, cfg.country_mixture,
                                   next_group_id)
       IN  /\ loc' = [loc EXCEPT
                         !.created_groups =
                             CreatedGroups(loc.items_by_type_level, next_group_id),
                         !.next_group_id = next_group_id + Len(loc.items_by_type_level),
                         !.group_entries = entries,
                         !.i = 0,
                         !.inserted_items = 0]
           /\ IF Len(entries) = 0
              THEN Step("delete_assignments", <<"SELECT_MAX">>, Step3DoneSignals)
              ELSE Step("insert_groups", <<"SELECT_MAX">>, <<>>)
    /\ UNCHANGED tx
    /\ Frame

\* one batch of INSERT INTO _RefDropItemGroup
DRW_InsertGroups ==
    /\ Running("sync", "insert_groups")
    /\ LET batch    == Batch(loc.group_entries, loc.i, GroupBatchSize)
           inserted == loc.inserted_items + Len(batch)
           total    == Len(loc.group_entries)
           last     == loc.i + GroupBatchSize >= total
       IN  /\ tx' = [tx EXCEPT !.grp = @ (+) BagOfSeq(batch)]
           /\ loc' = [loc EXCEPT !.inserted_items = inserted,
                                 !.i = @ + GroupBatchSize]
           /\ Step(IF last THEN "delete_assignments" ELSE "insert_groups",
                   <<"INSERT_GRP">>,
                   <<ProgressPercent(15 + Share(inserted, total, 20), "Creating groups..."),
                     Progress("Created group item entries")>>
                       \o (IF last THEN Step3DoneSignals ELSE <<>>))
    /\ Frame

\* Step 4: delete the old rare assignments
DRW_DeleteAssignments ==
    /\ Running("sync", "delete_assignments")
    /\ tx' = [tx EXCEPT !.asg = DeleteRareAssignments(@)]
    /\ loc' = [loc EXCEPT !.deleted_assignments =
                              BagCardinality(tx.asg) - BagCardinality(tx'.asg),
                          !.ki = 1, !.assignments = <<>>]
    /\ LET signals == <<Progress("Deleted old rare assignment entries"),
                        ProgressPercent(40, "Creating assignments..."),
                        Progress("Step 5/6: Creating assignments")>>
       IN  IF Len(loc.created_groups) = 0
           THEN Step("commit", <<"DELETE_ASG">>, signals \o Step5DoneSignals)
           ELSE Step("monsters", <<"DELETE_ASG">>, signals)
    /\ Frame

\* Step 5: one monster query per created group, one assignment per monster found
DRW_Monsters ==
    /\ Running("sync", "monsters")
    /\ LET key      == loc.created_groups[loc.ki].key
           group_id == loc.created_groups[loc.ki].val
           last     == loc.ki = Len(loc.created_groups)
           planned  == loc.assignments
                          \o AssignmentsOf(cfg, key, group_id,
                                           MonstersOf(catalog, cfg, key))
       IN  /\ RegionParses(cfg.country_mixture,
                           IF cfg.country_mixture THEN "" ELSE key[3])
           /\ loc' = [loc EXCEPT !.assignments = planned, !.ki = @ + 1,
                                 !.i = 0, !.inserted_assignments = 0]
           /\ Step(IF ~last THEN "monsters"
                   ELSE IF Len(planned) = 0 THEN "commit"
                   ELSE "insert_assignments",
                   <<"SELECT_MOBS">>,
                   (IF Len(loc.created_groups) % 10 = 0
                    THEN <<Progress("Planned assignments")>> ELSE <<>>)
                       \o (IF last /\ Len(planned) = 0 THEN Step5DoneSignals ELSE <<>>))
    /\ UNCHANGED tx
    /\ Frame

\* one batch of INSERT INTO _RefMonster_AssignedItemRndDrop
DRW_InsertAssignments ==
    /\ Running("sync", "insert_assignments")
    /\ LET batch    == Batch(loc.assignments, loc.i, AssignBatchSize)
           inserted == loc.inserted_assignments + Len(batch)
           total    == Len(loc.assignments)
           last     == loc.i + AssignBatchSize >= total
       IN  /\ tx' = [tx EXCEPT !.asg = @ (+) BagOfSeq(batch)]
           /\ loc' = [loc EXCEPT !.inserted_assignments = inserted,
                                 !.i = @ + AssignBatchSize]
           /\ Step(IF last THEN "commit" ELSE "insert_assignments",
                   <<"INSERT_ASG">>,
                   <<ProgressPercent(40 + Share(inserted, total, 50), "ETA"),
                     Progress("Created assignments")>>
                       \o (IF last THEN Step5DoneSignals ELSE <<>>))
    /\ Frame

\* Step 6: conn.commit()
DRW_Commit ==
    /\ Running("sync", "commit")
    /\ db' = tx
    /\ Step("close", <<"COMMIT">>, <<>>)
    /\ UNCHANGED <<catalog, tx, worker, cfg, loc, finishedQ, buttons, dialog, second,
                   budget, hist>>


\* conn.close(), the last percentage and the success message
DRW_Close ==
    /\ Running("sync", "close")
    /\ EndRun(TRUE, "Successfully updated drop rates",
              <<ProgressPercent(100, "Complete!")>>)
    /\ hist' = [hist EXCEPT
                   !.since = IF @ \in {"b", "bs", "bsr"} THEN "bs" ELSE "none",
                   !.snap = IF hist.since \in {"b", "bs", "bsr"} THEN @ ELSE NoSnap,
                   !.synced = IF hist.since \in {"b", "bs", "bsr"} THEN Live(db) ELSE NoSnap,
                   !.prev = hist.last,
                   !.last = [cfg |-> cfg, live |-> Live(db)]]
    /\ UNCHANGED <<catalog, db, tx, cfg, loc, ops, buttons, dialog, second, budget>>

DropRateWorker_run ==
    \/ DRW_Connect
    \/ DRW_CheckBackup
    \/ DRW_BackupDropGroups
    \/ DRW_BackupCopyGroups
    \/ DRW_BackupDropAssignments
    \/ DRW_BackupCopyAssignments
    \/ DRW_Items
    \/ DRW_DeleteGroups
    \/ DRW_MaxGroupId
    \/ DRW_InsertGroups
    \/ DRW_DeleteAssignments
    \/ DRW_Monsters
    \/ DRW_InsertAssignments
    \/ DRW_Commit
    \/ DRW_Close

-----------------------------------------------------------------------------
(* BackupWorker.run *)

BW_Connect ==
    /\ Running("backup", "connect")
    /\ tx' = db
    /\ loc' = InitLoc
    /\ Step("b_drop_grp", <<>>, <<Progress("Creating backup of drop groups...")>>)
    /\ Frame

BW_DropGroups ==
    /\ Running("backup", "b_drop_grp")
    /\ tx' = [tx EXCEPT !.grpBak = DropIfExists(@)]
    /\ Step("b_copy_grp", <<"DROP_GRP_BAK">>, <<>>)
    /\ UNCHANGED loc
    /\ Frame

\* variant: the copy of the group relation is committed on its own
BW_CopyGroupsCommitted ==
    /\ Running("backup", "b_copy_grp")
    /\ tx' = [tx EXCEPT !.grpBak = SelectInto(tx.grp)]
    /\ db' = tx'
    /\ Step("b_count_grp", <<"COPY_GRP_BAK">>, <<>>)
    /\ UNCHANGED <<catalog, worker, cfg, loc, finishedQ, buttons, dialog, second, budget,
                   hist>>

BW_CopyGroups ==
    /\ Running("backup", "b_copy_grp")
    /\ tx' = [tx EXCEPT !.grpBak = SelectInto(tx.grp)]
    /\ Step("b_count_grp", <<"COPY_GRP_BAK">>, <<>>)
    /\ UNCHANGED loc
    /\ Frame

BW_CountGroups ==
    /\ Running("backup", "b_count_grp")
    /\ loc' = [loc EXCEPT !.group_count = BagCardinality(tx.grpBak.rows)]
    /\ Step("b_drop_asg", <<"COUNT_GRP_BAK">>,
            <<Progress("Creating backup of drop assignments...")>>)
    /\ UNCHANGED tx
    /\ Frame

BW_DropAssignments ==
    /\ Running("backup", "b_drop_asg")
    /\ tx' = [tx EXCEPT !.asgBak = DropIfExists(@)]
    /\ Step("b_copy_asg", <<"DROP_ASG_BAK">>, <<>>)
    /\ UNCHANGED loc
    /\ Frame

BW_CopyAssignments ==
    /\ Running("backup", "b_copy_asg")
    /\ tx' = [tx EXCEPT !.asgBak = SelectInto(tx.asg)]
    /\ Step("b_count_asg", <<"COPY_ASG_BAK">>, <<>>)
    /\ UNCHANGED loc
    /\ Frame

BW_CountAssignments ==
    /\ Running("backup", "b_count_asg")
    /\ loc' = [loc EXCEPT !.assignment_count = BagCardinality(tx.asgBak.rows)]
    /\ Step("commit", <<"COUNT_ASG_BAK">>, <<>>)
    /\ UNCHANGED tx
    /\ Frame

BW_Commit ==
    /\ Running("backup", "commit")
    /\ db' = tx
    /\ Step("close", <<"COMMIT">>, <<>>)
    /\ UNCHANGED <<catalog, tx, worker, cfg, loc, finishedQ, buttons, dialog, second,
                   budget, hist>>

BW_Close ==
    /\ Running("backup", "close")
    /\ EndRun(TRUE, "Backup created successfully!", <<>>)
    /\ hist' = [hist EXCEPT !.since = "b", !.snap = Live(db), !.synced = NoSnap,
                            !.prev = NoSync, !.last = NoSync]
    /\ UNCHANGED <<catalog, db, tx, cfg, loc, ops, buttons, dialog, second, budget>>

BackupWorker_run ==
    \/ BW_Connect
    \/ BW_DropGroups
    \/ BW_CopyGroups
    \/ BW_CountGroups
    \/ BW_DropAssignments
    \/ BW_CopyAssignments
    \/ BW_CountAssignments
    \/ BW_Commit
    \/ BW_Close

-----------------------------------------------------------------------------
(* RestoreWorker.run *)

RW_Connect ==
    /\ Running("restore", "connect")
    /\ tx' = db
    /\ loc' = InitLoc
    /\ Step("r_check_grp", <<>>, <<Progress("Checking for backups...")>>)
    /\ Frame

\* SELECT COUNT(*) FROM INFORMATION_SCHEMA.TABLES WHERE TABLE_NAME = <group backup>
RW_CheckGroupBackup ==
    /\ Running("restore", "r_check_grp")
    /\ tx.grpBak.exists
    /\ Step("r_check_asg", <<"SELECT_TABLES">>, <<>>)
    /\ UNCHANGED <<tx, loc>>
    /\ Frame

RW_NoGroupBackup ==
    /\ Running("restore", "r_check_grp")
    /\ ~tx.grpBak.exists
    /\ Raise("No drop group backup found! Please create a backup first.", <<"SELECT_TABLES">>)

RW_CheckAssignmentBackup ==
    /\ Running("restore", "r_check_asg")
    /\ tx.asgBak.exists
    /\ Step("r_count_grp", <<"SELECT_TABLES">>, <<>>)
    /\ UNCHANGED <<tx, loc>>
    /\ Frame

RW_NoAssignmentBackup ==
    /\ Running("restore", "r_check_asg")
    /\ ~tx.asgBak.exists
    /\ Raise("No assignment backup found! Please create a backup first.", <<"SELECT_TABLES">>)

RW_CountGroupBackup ==
    /\ Running("restore", "r_count_grp")
    /\ loc' = [loc EXCEPT !.backup_group_count = BagCardinality(tx.grpBak.rows)]
    /\ Step("r_count_asg", <<"COUNT_GRP_BAK">>, <<>>)
    /\ UNCHANGED tx
    /\ Frame

\* variant: the emptiness test is missing
RW_CountAssignmentBackupUnchecked ==
    /\ Running("restore", "r_count_asg")
    /\ loc' = [loc EXCEPT !.backup_assignment_count = BagCardinality(tx.asgBak.rows)]
    /\ Step("r_delete_asg", <<"COUNT_ASG_BAK">>, <<Progress("Clearing current data...")>>)
    /\ UNCHANGED tx
    /\ Frame

RW_CountAssignmentBackup ==
    /\ Running("restore", "r_count_asg")
    /\ LET backup_assignment_count == BagCardinality(tx.asgBak.rows)
       IN  /\ loc.backup_group_count # 0 \/ backup_assignment_count # 0
           /\ loc' = [loc EXCEPT !.backup_assignment_count = backup_assignment_count]
    /\ Step("r_delete_asg", <<"COUNT_ASG_BAK">>, <<Progress("Clearing current data...")>>)
    /\ UNCHANGED tx
    /\ Frame

RW_EmptyBackup ==
    /\ Running("restore", "r_count_asg")
    /\ loc.backup_group_count = 0 /\ BagCardinality(tx.asgBak.rows) = 0
    /\ Raise("Backup tables are empty!", <<"COUNT_ASG_BAK">>)

\* DELETE FROM _RefMonster_AssignedItemRndDrop
RW_DeleteAssignments ==
    /\ Running("restore", "r_delete_asg")
    /\ tx' = [tx EXCEPT !.asg = EmptyBag]
    /\ Step("r_delete_grp", <<"DELETE_ASG">>, <<>>)
    /\ UNCHANGED loc
    /\ Frame

\* variant: the group relation is not cleared before the backup rows are inserted
RW_DeleteGroupsSkipped ==
    /\ Running("restore", "r_delete_grp")
    /\ Step("r_insert_grp", <<"DELETE_GRP">>,
            <<Progress("Restoring drop groups from backup...")>>)
    /\ UNCHANGED <<tx, loc>>
    /\ Frame

\* DELETE FROM _RefDropItemGroup
RW_DeleteGroups ==
    /\ Running("restore", "r_delete_grp")
    /\ tx' = [tx EXCEPT !.grp = EmptyBag]
    /\ Step("r_insert_grp", <<"DELETE_GRP">>,
            <<Progress("Restoring drop groups from backup...")>>)
    /\ UNCHANGED loc
    /\ Frame

\* INSERT INTO _RefDropItemGroup SELECT * FROM _RefDropItemGroup_Backup
RW_InsertGroups ==
    /\ Running("restore", "r_insert_grp")
    /\ tx' = [tx EXCEPT !.grp = @ (+) tx.grpBak.rows]
    /\ Step("r_recount_grp", <<"INSERT_GRP">>, <<>>)
    /\ UNCHANGED loc
    /\ Frame

RW_RecountGroups ==
    /\ Running("restore", "r_recount_grp")
    /\ loc' = [loc EXCEPT !.group_count = BagCardinality(tx.grp)]
    /\ Step("r_insert_asg", <<"COUNT_GRP">>,
            <<Progress("Restoring drop assignments from backup...")>>)
    /\ UNCHANGED tx
    /\ Frame

\* variant: the rows are moved out of the backup instead of copied
RW_InsertAssignmentsMoved ==
    /\ Running("restore", "r_insert_asg")
    /\ tx' = [tx EXCEPT !.asg = @ (+) tx.asgBak.rows, !.asgBak = Table(EmptyBag)]
    /\ Step("r_recount_asg", <<"INSERT_ASG">>, <<>>)
    /\ UNCHANGED loc
    /\ Frame

\* INSERT INTO _RefMonster_AssignedItemRndDrop SELECT * FROM its backup
RW_InsertAssignments ==
    /\ Running("restore", "r_insert_asg")
    /\ tx' = [tx EXCEPT !.asg = @ (+) tx.asgBak.rows]
    /\ Step("r_recount_asg", <<"INSERT_ASG">>, <<>>)
    /\ UNCHANGED loc
    /\ Frame

RW_RecountAssignments ==
    /\ Running("restore", "r_recount_asg")
    /\ loc' = [loc EXCEPT !.assignment_count = BagCardinality(tx.asg)]
    /\ Step("commit", <<"COUNT_ASG">>, <<>>)
    /\ UNCHANGED tx
    /\ Frame

RW_Commit ==
    /\ Running("restore", "commit")
    /\ db' = tx
    /\ Step("close", <<"COMMIT">>, <<>>)
    /\ UNCHANGED <<catalog, tx, worker, cfg, loc, finishedQ, buttons, dialog, second,
                   budget, hist>>

RW_Close ==
    /\ Running("restore", "close")
    /\ EndRun(TRUE, "Restore completed successfully!", <<>>)
    /\ hist' = [hist EXCEPT
                   !.since = IF @ = "bs" THEN "bsr" ELSE "none",
                   !.snap = IF hist.since = "bs" THEN @ ELSE NoSnap,
                   !.synced = IF hist.since = "bs" THEN @ ELSE NoSnap,
                   !.prev = NoSync,
                   !.last = NoSync]
    /\ UNCHANGED <<catalog, db, tx, cfg, loc, ops, buttons, dialog, second, budget>>

RestoreWorker_run ==
    \/ RW_Connect
    \/ RW_CheckGroupBackup
    \/ RW_NoGroupBackup
    \/ RW_CheckAssignmentBackup
    \/ RW_NoAssignmentBackup
    \/ RW_CountGroupBackup
    \/ RW_CountAssignmentBackup
    \/ RW_EmptyBackup
    \/ RW_DeleteAssignments
    \/ RW_DeleteGroups
    \/ RW_InsertGroups
    \/ RW_RecountGroups
    \/ RW_InsertAssignments
    \/ RW_RecountAssignments
    \/ RW_Commit
    \/ RW_Close

\* Any call on the connection may raise (the store is unreachable, a statement is
\* refused): the run ends in its except clause.
StatementRaises ==
    /\ worker # "none"
    /\ Raise(DriverError, <<>>)

-----------------------------------------------------------------------------
(* RareDropTool: the window.  A form is what the input widgets hold when   *)
(* Apply is clicked; a reply is the button chosen in a confirmation box.   *)

Form(star, star_prob, moon, moon_prob, sun, sun_prob, level_distance, level_threshold, decrease, country_mixture) ==
    [star |-> star, star_prob |-> star_prob, moon |-> moon, moon_prob |-> moon_prob,
     sun |-> sun, sun_prob |-> sun_prob, level_distance |-> level_distance,
     level_threshold |-> level_threshold, decrease |-> decrease,
     country_mixture |-> country_mixture]

\* one checkbox and its probability field: float(text.strip()), then the range test
Probability(checked, text) ==
    LET prob == FloatOfStr(StripStr(text))
    IN  IF ~checked THEN [ok |-> TRUE, use |-> FALSE, val |-> Frac(0, 1)]
        ELSE IF ~prob.ok THEN [ok |-> FALSE, use |-> FALSE, val |-> Frac(0, 1)]
        ELSE IF ~IsNaN(prob.val) /\ (prob.val.num <= 0 \/ prob.val.num > prob.val.den)
             THEN [ok |-> FALSE, use |-> FALSE, val |-> Frac(0, 1)]
        ELSE [ok |-> TRUE, use |-> TRUE, val |-> prob.val]

\* the try block of apply_drop_rates: "invalid" is the ValueError branch,
\* "no_types" the early return, "ok" carries the worker's constructor arguments
Validate(form) ==
    LET a  == Probability(form.star, form.star_prob)
        b  == Probability(form.moon, form.moon_prob)
        c  == Probability(form.sun, form.sun_prob)
        rare_types ==
            (IF a.use THEN <<StarType>> ELSE <<>>)
                \o (IF b.use THEN <<MoonType>> ELSE <<>>)
                \o (IF c.use THEN <<SunType>> ELSE <<>>)
        probabilities ==
            (IF a.use THEN <<[key |-> StarType, val |-> a.val]>> ELSE <<>>)
                \o (IF b.use THEN <<[key |-> MoonType, val |-> b.val]>> ELSE <<>>)
                \o (IF c.use THEN <<[key |-> SunType, val |-> c.val]>> ELSE <<>>)
        level_distance  == IntOfStr(StripStr(form.level_distance))
        level_threshold == IntOfStr(StripStr(form.level_threshold))
        decrease_pct    == FloatOfStr(StripStr(form.decrease))
        invalid == [status |-> "invalid", cfg |-> NoCfg]
    IN  IF ~a.ok \/ ~b.ok \/ ~c.ok THEN invalid
        ELSE IF rare_types = <<>> THEN [status |-> "no_types", cfg |-> NoCfg]
        ELSE IF ~level_distance.ok \/ level_distance.val < 0 THEN invalid
        ELSE IF ~level_threshold.ok \/ level_threshold.val < 0 THEN invalid
        ELSE IF ~decrease_pct.ok
                    \/ (~IsNaN(decrease_pct.val)
                          /\ (decrease_pct.val.num < 0
                                \/ decrease_pct.val.num > 100 * decrease_pct.val.den))
             THEN invalid
        ELSE [status |-> "ok",
              cfg |-> [rare_types |-> rare_types, probabilities |-> probabilities,
                       level_distance |-> level_distance.val,
                       country_mixture |-> form.country_mixture,
                       level_threshold |-> level_threshold.val,
                       decrease_pct |-> decrease_pct.val]]

\* variant: the worker is started and the controls are left as they are
StartWorkerControlsLeft(kind, c) ==
    /\ buttons' = buttons
    /\ worker' = kind
    /\ pc' = "connect"
    /\ cfg' = c
    /\ loc' = InitLoc
    /\ emitted' = <<>>
    /\ ops' = <<>>
    /\ budget' = budget - 1
    /\ hist' = [hist EXCEPT !.pre = db, !.raised = <<>>]
    /\ UNCHANGED <<catalog, db, tx, finishedQ, second>>

\* the controls are disabled, self.worker is set and worker.start() is called
StartWorker(kind, c) ==
    /\ buttons' = AllDisabled
    /\ worker' = kind
    /\ pc' = "connect"
    /\ cfg' = c
    /\ loc' = InitLoc
    /\ emitted' = <<>>
    /\ ops' = <<>>
    /\ budget' = budget - 1
    /\ hist' = [hist EXCEPT !.pre = db, !.raised = <<>>]
    /\ UNCHANGED <<catalog, db, tx, finishedQ, second>>

\* a handler that returns after a message box, or after the reply No
ReturnAfter(title) ==
    /\ dialog' = title
    /\ UNCHANGED <<catalog, db, tx, worker, pc, cfg, loc, emitted, ops, finishedQ,
                   buttons, second, budget, hist>>

apply_drop_rates(form, reply) ==
    /\ buttons.apply
    /\ LET v == Validate(form)
       IN  IF v.status = "invalid" THEN ReturnAfter("Invalid Input")
           ELSE IF v.status = "no_types" THEN ReturnAfter("No Types Selected")
           ELSE IF reply = "No" THEN ReturnAfter("Confirm Action")
           ELSE /\ budget > 0
                /\ dialog' = "Confirm Action"
                /\ StartWorker("sync", v.cfg)

create_backup(reply) ==
    /\ buttons.backup
    /\ IF reply = "No" THEN ReturnAfter("Update Backup")
       ELSE /\ budget > 0
            /\ dialog' = "Update Backup"
            /\ StartWorker("backup", NoCfg)

restore_backup(reply) ==
    /\ buttons.restore
    /\ IF reply = "No" THEN ReturnAfter("Confirm Restore")
       ELSE /\ budget > 0
            /\ dialog' = "Confirm Restore"
            /\ StartWorker("restore", NoCfg)

\* a finished(bool, str) signal is delivered to the slot connected to it: the
\* controls are re-enabled and the outcome is shown.  The worker object is no
\* longer used after this; its fields are cleared.
Deliver(kind, title_ok, title_failed) ==
    /\ finishedQ # <<>>
    /\ Head(finishedQ).kind = kind
    /\ finishedQ' = Tail(finishedQ)
    /\ buttons' = AllEnabled
    /\ dialog' = IF Head(finishedQ).ok THEN title_ok ELSE title_failed
    /\ cfg' = NoCfg
    /\ loc' = InitLoc
    /\ emitted' = <<>>
    /\ ops' = <<>>
    /\ hist' = [hist EXCEPT !.pre = db, !.raised = <<>>]
    /\ UNCHANGED <<catalog, db, tx, worker, pc, second, budget>>

on_finished == Deliver("sync", "Success", "Error")

on_backup_finished == Deliver("backup", "Backup Complete", "Backup Failed")

on_restore_finished == Deliver("restore", "Restore Complete", "Restore Failed")

-----------------------------------------------------------------------------
(* The reference data and the stored rows the runs start from *)

Item(id, name, reqlevel, country) == ObjCommon(id, name, 1, 3, Col(reqlevel), country, 0)

Monster(id, name, country, link) == ObjCommon(id, name, 1, 1, NullCol, country, link)

MainCatalog ==
    [common |->
        {Item(1, "ITEM_CH_SWORD_A_RARE", 2, 0),
         Item(2, "ITEM_CH_SPEAR_A_RARE", 2, 3),
         Item(3, "ITEM_EU_AXE_A_RARE", 2, 1),
         Item(4, "ITEM_CH_BOW_B_RARE", 4, 0),
         ObjCommon(5, "ITEM_CH_BLADE_A_RARE", 0, 3, Col(2), 0, 0),
         ObjCommon(6, "ITEM_CH_STAFF_A_RARE", 1, 3, NullCol, 0, 0),
         Monster(11, "MOB_CH_TIGER", 0, 101),
         Monster(12, "MOB_EU_WOLF", 1, 102),
         Monster(13, "MOB_CH_GHOST", 3, 103),
         Monster(15, "NPC_CH_SMITH", 0, 104)},
     char |-> {ObjChar(101, 1), ObjChar(102, 2), ObjChar(103, 5), ObjChar(104, 2)}]

\* rows other tools keep in the two relations
PotionGroup == GroupRow(1, 7, "ITEM_ETC_POTION_GROUP", 900, FloatRecip(1), 0)

RarestGroup == GroupRow(1, 8, "RAREST_DROP_GROUP", 901, FloatRecip(1), 0)

PotionDrop == AssignRow(1, 11, 7, "ITEM_ETC_POTION_GROUP", 0, 1, 1, Frac(1, 2), 0, 0)

RarestDrop == AssignRow(1, 12, 8, "RAREST_DROP_GROUP", 0, 1, 1, Frac(1, 1000), 0, 0)

\* rows an earlier sync with Sun enabled left behind
OldSunGroup == GroupRow(1, 9, "RARE_C_LVL_9", 4, FloatRecip(1), 0)

OldSunDrop == AssignRow(1, 13, 9, "RARE_C_LVL_9", 0, 1, 1, Frac(1, 100), 0, 0)

Store(grp, asg, grpBak, asgBak) ==
    [grp |-> SetToBag(grp), asg |-> SetToBag(asg), grpBak |-> grpBak, asgBak |-> asgBak]

InitialStores ==
    {Store({}, {}, Absent, Absent),
     Store({PotionGroup, RarestGroup}, {PotionDrop, RarestDrop}, Absent, Absent),
     Store({PotionGroup, RarestGroup, OldSunGroup}, {PotionDrop, RarestDrop, OldSunDrop},
           Table(SetToBag({PotionGroup, RarestGroup})),
           Table(SetToBag({PotionDrop, RarestDrop}))),
     Store({PotionGroup, OldSunGroup}, {PotionDrop, OldSunDrop},
           Table(SetToBag({PotionGroup})), Absent),
     Store({PotionGroup}, {PotionDrop}, Table(EmptyBag), Table(EmptyBag))}

\* what the user may have typed when Apply is clicked
MainForms ==
    {Form(TRUE, "0.01", FALSE, "0.02", FALSE, "0.03", "1", "0", "0", FALSE),
     Form(TRUE, "0.01", TRUE, " 0.02 ", FALSE, "0.03", "1", "2", "50", TRUE),
     Form(FALSE, "0.01", FALSE, "0.02", FALSE, "0.03", "x", "0", "0", FALSE),
     Form(TRUE, "1.5", FALSE, "0.02", FALSE, "0.03", "1", "0", "0", FALSE),
     Form(TRUE, "0.01", FALSE, "0.02", FALSE, "0.03", "-1", "0", "0", FALSE),
     Form(TRUE, "0.01", FALSE, "0.02", FALSE, "0.03", "1", "2", "nan", FALSE)}

Replies == {"Yes", "No"}

InitWith(cats, stores, runs) ==
    /\ catalog \in cats
    /\ db \in stores
    /\ tx = db
    /\ worker = "none"
    /\ pc = "idle"
    /\ cfg = NoCfg
    /\ loc = InitLoc
    /\ emitted = <<>>
    /\ ops = <<>>
    /\ finishedQ = <<>>
    /\ buttons = AllEnabled
    /\ dialog = "none"
    /\ second = NoSecond
    /\ budget = runs
    /\ hist = [since |-> "none", snap |-> NoSnap, synced |-> NoSnap, pre |-> db,
               prev |-> NoSync, last |-> NoSync, raised |-> <<>>]

Init == InitWith({MainCatalog}, InitialStores, MaxRuns)

\* the steps of the three workers and the slots their finished signal reaches
Workers ==
    \/ DropRateWorker_run
    \/ BackupWorker_run
    \/ RestoreWorker_run
    \/ StatementRaises
    \/ on_finished
    \/ on_backup_finished
    \/ on_restore_finished

Next ==
    \/ \E form \in MainForms, reply \in Replies : apply_drop_rates(form, reply)
    \/ \E reply \in Replies : create_backup(reply)
    \/ \E reply \in Replies : restore_backup(reply)
    \/ Workers

Spec == Init /\ [][Next]_vars

\* a started QThread is scheduled: run() takes its next step as long as it has one
RunSteps == DropRateWorker_run \/ BackupWorker_run \/ RestoreWorker_run

\* the window with one run fewer ahead of it
InitLive == InitWith({MainCatalog}, InitialStores, MaxRuns - 1)

SpecLive == InitLive /\ [][Next]_vars /\ WF_vars(RunSteps)

-----------------------------------------------------------------------------
(* Planning over wider reference data and every combination of the form:   *)
(* one run per behaviour.                                                  *)

\* items of one category at two levels and in three regions, monsters of level 0
\* and of the other levels around them
WideCatalog ==
    [common |->
        {Item(1, "ITEM_CH_SWORD_A_RARE", 2, 0),
         Item(2, "ITEM_CH_SPEAR_A_RARE", 2, 3),
         Item(3, "ITEM_CH_BLADE_A_RARE", 2, 0),
         Item(4, "ITEM_EU_AXE_A_RARE", 2, 1),
         Item(5, "ITEM_CH_BOW_A_RARE", 3, 0),
         Item(6, "ITEM_XX_RING_A_RARE", 1, 2),
         Item(7, "ITEM_CH_BOW_B_RARE", 4, 0),
         Item(8, "ITEM_EU_ROBE_C_RARE", 3, 1),
         ObjCommon(9, "ITEM_CH_STAFF_A_RARE", 1, 3, NullCol, 0, 0),
         Monster(11, "MOB_CH_RAT", 0, 101),
         Monster(12, "MOB_CH_TIGER", 0, 102),
         Monster(13, "MOB_EU_WOLF", 1, 103),
         Monster(14, "MOB_CH_GHOST", 3, 104),
         Monster(15, "MOB_XX_BUG", 2, 105),
         Monster(16, "MOB_CH_YETI", 0, 106),
         ObjCommon(17, "MOB_CH_EVENT", 0, 1, NullCol, 0, 102),
         Monster(18, "NPC_CH_SMITH", 0, 102)},
     char |-> {ObjChar(101, 0), ObjChar(102, 2), ObjChar(103, 2), ObjChar(104, 3),
               ObjChar(105, 1), ObjChar(106, 5)}]

\* one level-50 Chinese item and the monsters around its window
ScenarioCatalog ==
    [common |->
        {Item(21, "ITEM_CH_TBLADE_A_RARE", 50, 0),
         Monster(31, "MOB_CH_A", 0, 131),
         Monster(32, "MOB_CH_B", 0, 132),
         Monster(33, "MOB_CH_C", 3, 133),
         Monster(34, "MOB_CH_D", 0, 134),
         Monster(35, "MOB_CH_E", 3, 135),
         Monster(36, "MOB_EU_F", 1, 133)},
     char |-> {ObjChar(131, 39), ObjChar(132, 40), ObjChar(133, 50), ObjChar(134, 60),
               ObjChar(135, 61)}]

PlanCatalogs == {WideCatalog, ScenarioCatalog}

PlanStores ==
    {Store({}, {}, Absent, Absent),
     Store({PotionGroup, OldSunGroup}, {PotionDrop, OldSunDrop},
           Table(SetToBag({PotionGroup})), Absent),
     Store({PotionGroup}, {PotionDrop}, Table(EmptyBag), Table(EmptyBag)),
     Store({PotionGroup, OldSunGroup}, {PotionDrop, OldSunDrop},
           Table(SetToBag({PotionGroup})), Table(SetToBag({PotionDrop})))}

PlanDistances == (0..MaxLevelDistance) \cup {10}

\* the checkboxes Star, Moon, Sun
PlanChecks ==
    {<<TRUE, FALSE, FALSE>>, <<TRUE, TRUE, FALSE>>, <<FALSE, TRUE, TRUE>>,
     <<TRUE, TRUE, TRUE>>, <<FALSE, FALSE, FALSE>>}

PlanForms ==
    {Form(on[1], "0.01", on[2], "0.5", on[3], "1", ToString(d), decay[1], decay[2], mix) :
        on \in PlanChecks, d \in PlanDistances,
        decay \in {<<"0", "0">>, <<"2", "50">>}, mix \in BOOLEAN}

InitPlan == InitWith(PlanCatalogs, PlanStores, 1)

NextPlan ==
    \/ \E form \in PlanForms, reply \in Replies : apply_drop_rates(form, reply)
    \/ \E reply \in Replies : create_backup(reply)
    \/ \E reply \in Replies : restore_backup(reply)
    \/ Workers

SpecPlan == InitPlan /\ [][NextPlan]_vars

-----------------------------------------------------------------------------
(* The two insert loops over plans long enough for several batches.  A run  *)
(* is taken up where the first INSERT of a relation is about to be issued:  *)
(* one group per item level with one item each, and the monsters assigned   *)
(* to the first group.                                                      *)

\* the numbers of planned rows tried for a batch size
BatchLengths(batch_size) ==
    {1, 2} \cup {batches * batch_size + d : batches \in 1..MaxBatches, d \in {-1, 0, 1}}

\* items_by_type_level after Step 1: item 5000 + k is the one item of level k
BatchItems(groups) ==
    [k \in 1..groups |-> [key |-> <<StarType, k>>, val |-> <<5000 + k>>]]

\* group_entries as Step 3 builds it from BatchItems
BatchGroupEntries(groups, next_group_id) ==
    [k \in 1..groups |->
        GroupRow(1, next_group_id + k - 1, GroupName(TRUE, <<StarType, k>>), 5000 + k,
                 SelectRatioOf(<<5000 + k>>), 0)]

\* assignments as Step 5 builds it: monsters 1000 + k, all assigned to one group
BatchAssignments(rows, group_id) ==
    [k \in 1..rows |->
        AssignRow(1, 1000 + k, group_id, GroupName(TRUE, <<StarType, 1>>), 0, 1, 1,
                  Frac(1, 100), 0, 0)]

\* the signals of a run up to the first INSERT INTO _RefDropItemGroup
SignalsBeforeGroups(items) ==
    <<Progress("Checking for backup..."), ProgressPercent(2, "Checking...")>>
        \o Step1Signals \o CollectedSignals(0, items) \o Step1DoneSignals
        \o <<Progress("Deleted old rare drop group entries"),
              ProgressPercent(15, "Creating new groups..."),
              Progress("Step 3/6: Creating drop groups in _RefDropItemGroup...")>>

\* run() is about to insert the first batch of `groups` group rows
AtGroupInserts(groups) ==
    LET next_group_id == MaxGroupID(DeleteRareGroups(db.grp)) + 1
    IN  /\ pc = "insert_groups"
        /\ tx = [db EXCEPT !.grp = DeleteRareGroups(@)]
        /\ loc = [InitLoc EXCEPT
                     !.backup_exists = TRUE,
                     !.ti = 2,
                     !.items_by_type_level = BatchItems(groups),
                     !.item_count = groups,
                     !.deleted_groups = 1,
                     !.next_group_id = next_group_id + groups,
                     !.created_groups = CreatedGroups(BatchItems(groups), next_group_id),
                     !.group_entries = BatchGroupEntries(groups, next_group_id)]
        /\ ops = <<"SELECT_TABLES", "SELECT_ITEMS", "DELETE_GRP", "SELECT_MAX">>
        /\ emitted = SignalsBeforeGroups(groups)

\* run() has inserted one group and is about to insert the first batch of `rows`
\* assignment rows
AtAssignmentInserts(rows) ==
    LET next_group_id == MaxGroupID(DeleteRareGroups(db.grp)) + 1
        entries == BatchGroupEntries(1, next_group_id)
    IN  /\ pc = "insert_assignments"
        /\ tx = [db EXCEPT !.grp = DeleteRareGroups(@) (+) BagOfSeq(entries),
                           !.asg = DeleteRareAssignments(@)]
        /\ loc = [InitLoc EXCEPT
                     !.backup_exists = TRUE,
                     !.ti = 2,
                     !.items_by_type_level = BatchItems(1),
                     !.item_count = 1,
                     !.deleted_groups = 1,
                     !.next_group_id = next_group_id + 1,
                     !.created_groups = CreatedGroups(BatchItems(1), next_group_id),
                     !.group_entries = entries,
                     !.inserted_items = 1,
                     !.deleted_assignments = 1,
                     !.ki = 2,
                     !.assignments = BatchAssignments(rows, next_group_id)]
        /\ ops = <<"SELECT_TABLES", "SELECT_ITEMS", "DELETE_GRP", "SELECT_MAX",
                   "INSERT_GRP", "DELETE_ASG", "SELECT_MOBS">>
        /\ emitted = SignalsBeforeGroups(1)
                         \o <<ProgressPercent(15 + Share(1, 1, 20), "Creating groups..."),
                               Progress("Created group item entries")>>
                         \o Step3DoneSignals
                         \o <<Progress("Deleted old rare assignment entries"),
                               ProgressPercent(40, "Creating assignments..."),
                               Progress("Step 5/6: Creating assignments")>>

InitBatch ==
    /\ catalog = MainCatalog
    /\ db = Store({PotionGroup, OldSunGroup}, {PotionDrop, OldSunDrop},
                  Table(SetToBag({PotionGroup})), Table(SetToBag({PotionDrop})))
    /\ worker = "sync"
    /\ cfg = Validate(Form(TRUE, "0.01", FALSE, "0.02", FALSE, "0.03", "1", "0", "0",
                           TRUE)).cfg
    /\ \/ \E groups \in BatchLengths(GroupBatchSize) : AtGroupInserts(groups)
       \/ \E rows \in BatchLengths(AssignBatchSize) : AtAssignmentInserts(rows)
    /\ finishedQ = <<>>
    /\ buttons = AllDisabled
    /\ dialog = "Confirm Action"
    /\ second = NoSecond
    /\ budget = 0
    /\ hist = [since |-> "none", snap |-> NoSnap, synced |-> NoSnap, pre |-> db,
               prev |-> NoSync, last |-> NoSync, raised |-> <<>>]

SpecBatch ==
    InitBatch /\ [][DRW_InsertGroups \/ DRW_InsertAssignments \/ DRW_Commit \/ DRW_Close
                       \/ StatementRaises]_vars

-----------------------------------------------------------------------------
(* The worker classes used by a caller other than the window: a second     *)
(* worker object is constructed and started while the window's worker is   *)
(* running.  Nothing in __init__, start() or run() looks at other workers; *)
(* the second run is followed up to its first statement.                   *)

WorkerKinds == {"sync", "backup", "restore"}

\* the constructor and QThread.start()
SecondStart(kind) ==
    /\ worker # "none"
    /\ second.kind = "none"
    /\ second' = [kind |-> kind, pc |-> "connect", statements |-> 0]
    /\ UNCHANGED <<catalog, db, tx, worker, pc, cfg, loc, emitted, ops, finishedQ,
                   buttons, dialog, budget, hist>>

\* mssql_python.connect and conn.cursor() at the top of run()
SecondConnect ==
    /\ second.pc = "connect"
    /\ second' = [second EXCEPT !.pc = "statement"]
    /\ UNCHANGED <<catalog, db, tx, worker, pc, cfg, loc, emitted, ops, finishedQ,
                   buttons, dialog, budget, hist>>

\* the first cursor.execute of run()
SecondExecute ==
    /\ second.pc = "statement"
    /\ second' = [second EXCEPT !.pc = "done", !.statements = @ + 1]
    /\ UNCHANGED <<catalog, db, tx, worker, pc, cfg, loc, emitted, ops, finishedQ,
                   buttons, dialog, budget, hist>>

InitEngine == InitWith({MainCatalog}, InitialStores, 1)

NextEngine ==
    \/ Next
    \/ \E kind \in WorkerKinds : SecondStart(kind)
    \/ SecondConnect
    \/ SecondExecute

SpecEngine == InitEngine /\ [][NextEngine]_vars

-----------------------------------------------------------------------------
(* The loop over the monsters fetched for one created group, one monster   *)
(* at a time, over a range of base ratios, thresholds and decreases.       *)

\* forms with Star checked that pass validation
RatioForms ==
    {Form(TRUE, prob, FALSE, "0.02", FALSE, "0.03", "1", threshold, decrease, TRUE) :
        prob \in {"0.01", "0.5", "1"},
        threshold \in {"0", "1", "3"},
        decrease \in {"0", "50", "90", "100"}}

\* cursor.fetchall(): rows (monster_id, monster_level), one monster per level, in
\* ascending or in descending order of level
RatioMonsters ==
    {[i \in 1..(MaxMonsterLevel + 1) |-> ObjChar(100 + i, i - 1)],
     [i \in 1..(MaxMonsterLevel + 1) |-> ObjChar(100 + i, MaxMonsterLevel + 1 - i)]}

\* run() has reached the loop for the first created group of rare type A
InitRatio ==
    /\ catalog = MainCatalog
    /\ db = Store({}, {}, Absent, Absent)
    /\ tx = db
    /\ worker = "sync"
    /\ pc = "monsters"
    /\ \E form \in RatioForms : cfg = Validate(form).cfg
    /\ \E monsters \in RatioMonsters :
           loc = [drop_ratio |-> Lookup(cfg.probabilities, StarType),
                  group_id |-> 1,
                  group_name |-> GroupName(TRUE, <<StarType, 2>>),
                  monsters |-> monsters,
                  mi |-> 0,
                  assignments |-> <<>>]
    /\ emitted = <<>>
    /\ ops = <<>>
    /\ finishedQ = <<>>
    /\ buttons = AllDisabled
    /\ dialog = "Confirm Action"
    /\ second = NoSecond
    /\ budget = 0
    /\ hist = [since |-> "none", snap |-> NoSnap, synced |-> NoSnap, pre |-> db,
               prev |-> NoSync, last |-> NoSync, raised |-> <<>>]

\* one pass of `for monster_id, monster_level in monsters`
DRW_AssignMonster ==
    /\ Running("sync", "monsters")
    /\ loc.mi < Len(loc.monsters)
    /\ LET monster == loc.monsters[loc.mi + 1]
           adjusted_drop_ratio ==
               AdjustedDropRatio(loc.drop_ratio, monster.Lvl, cfg.level_threshold,
                                 cfg.decrease_pct)
       IN  loc' = [loc EXCEPT
                      !.mi = @ + 1,
                      !.assignments =
                          Append(@, AssignRow(1, monster.ID, loc.group_id, loc.group_name,
                                              0, 1, 1, adjusted_drop_ratio, 0, 0))]
    /\ UNCHANGED <<catalog, db, tx, worker, pc, cfg, emitted, ops, finishedQ, buttons,
                   dialog, second, budget, hist>>

SpecRatio == InitRatio /\ [][DRW_AssignMonster]_vars

-----------------------------------------------------------------------------
(* RareDropTool.show_probability_dialog: the table of example levels, next *)
(* to the loop of run() over monsters of the same levels                   *)

\* the levels listed by the dialog: range(10, 150, 10) when the decrease is
\* disabled, range(threshold, 150, 10) otherwise (`decrease <= 0` is False for NaN)
ExampleLevels(threshold, decrease) ==
    LET start == IF threshold <= 0 \/ (~IsNaN(decrease) /\ decrease.num <= 0)
                 THEN 10 ELSE threshold
    IN  [i \in 1..((150 - start + 9) \div 10) |-> start + 10 * (i - 1)]

\* the probability shown for one level.  Arithmetic with NaN gives NaN, and
\* max(nan, x) is nan: max keeps its first argument unless the second is greater.
ActualProb(base_prob, level, threshold, decrease) ==
    IF threshold <= 0 \/ (~IsNaN(decrease) /\ decrease.num <= 0)
    THEN base_prob
    ELSE LET decrease_factor ==
                 IF level > threshold
                 THEN IF IsNaN(decrease) THEN NaN
                      ELSE DecreaseFactor(decrease, level - threshold)
                 ELSE Frac(1, 1)
             actual_prob == IF IsNaN(decrease_factor) THEN NaN
                            ELSE FracMul(base_prob, decrease_factor)
             floor == FracMul(base_prob, Frac(1, 100))
         IN  IF ~IsNaN(actual_prob) /\ ~FracLeq(floor, actual_prob) THEN floor
             ELSE actual_prob

PreviewForms ==
    {Form(TRUE, prob, FALSE, "0.02", FALSE, "0.03", "1", threshold, decrease, TRUE) :
        prob \in {"0.01", "1"}, threshold \in {"0", "2"},
        decrease \in {"0", "50", "100", "nan"}}

\* the dialog is opened on a form, and run() has reached the loop for the first
\* created group of rare type A with the configuration validated from the same
\* form and one monster of every listed level
InitPreview ==
    /\ catalog = MainCatalog
    /\ db = Store({}, {}, Absent, Absent)
    /\ tx = db
    /\ worker = "sync"
    /\ pc = "monsters"
    /\ \E form \in PreviewForms : cfg = Validate(form).cfg
    /\ LET levels == ExampleLevels(cfg.level_threshold, cfg.decrease_pct)
       IN  loc = [drop_ratio |-> Lookup(cfg.probabilities, StarType),
                  group_id |-> 1,
                  group_name |-> GroupName(TRUE, <<StarType, 2>>),
                  monsters |-> [i \in 1..Len(levels) |-> ObjChar(100 + i, levels[i])],
                  mi |-> 0,
                  assignments |-> <<>>,
                  levels |-> levels,
                  li |-> 0,
                  probs |-> <<>>]
    /\ emitted = <<>>
    /\ ops = <<>>
    /\ finishedQ = <<>>
    /\ buttons = AllDisabled
    /\ dialog = "Drop Probability Calculations"
    /\ second = NoSecond
    /\ budget = 0
    /\ hist = [since |-> "none", snap |-> NoSnap, synced |-> NoSnap, pre |-> db,
               prev |-> NoSync, last |-> NoSync, raised |-> <<>>]

\* one pass of `for level in levels` (Star is the only rare type enabled)
show_probability_dialog ==
    /\ dialog = "Drop Probability Calculations"
    /\ loc.li < Len(loc.levels)
    /\ LET level == loc.levels[loc.li + 1]
           actual_prob == ActualProb(loc.drop_ratio, level, cfg.level_threshold,
                                     cfg.decrease_pct)
       IN  loc' = [loc EXCEPT
                      !.li = @ + 1,
                      !.probs = Append(@, [level |-> level, actual_prob |-> actual_prob])]
    /\ UNCHANGED <<catalog, db, tx, worker, pc, cfg, emitted, ops, finishedQ, buttons,
                   dialog, second, budget, hist>>

SpecPreview == InitPreview /\ [][DRW_AssignMonster \/ show_probability_dialog]_vars

-----------------------------------------------------------------------------
(* Properties of a sync, a backup and a restore *)

\* a name that starts with the literal prefix RARE_
Synthetic(name) == StartsWith(name, "RARE_")

SyntheticGroups(rows) == BagWhere(rows, LAMBDA r : Synthetic(r.CodeName128))

SyntheticAssignments(rows) == BagWhere(rows, LAMBDA r : Synthetic(r.ItemGroupCodeName128))

OtherGroups(rows) == BagWhere(rows, LAMBDA r : ~Synthetic(r.CodeName128))

OtherAssignments(rows) == BagWhere(rows, LAMBDA r : ~Synthetic(r.ItemGroupCodeName128))

\* the run of the given kind has emitted finished, not yet delivered to the window
Ended(kind) == finishedQ # <<>> /\ Head(finishedQ).kind = kind

Succeeded(kind) == Ended(kind) /\ Head(finishedQ).ok

Destructive == {"DELETE_GRP", "DELETE_ASG", "INSERT_GRP", "INSERT_ASG"}

Issued(stmts) == {i \in 1..Len(ops) : ops[i] \in stmts}

BothBackups(d) == d.grpBak.exists /\ d.asgBak.exists

\* C1: a sync deletes and inserts only rows whose name starts with the literal
\* prefix RARE_: after a successful sync every other row of the two live relations
\* is present and unchanged.
C1_OnlyPrefixedRowsTouched ==
    Succeeded("sync") =>
        /\ OtherGroups(db.grp) = OtherGroups(hist.pre.grp)
        /\ OtherAssignments(db.asg) = OtherAssignments(hist.pre.asg)

\* C2: in a sync, when the first DELETE on a live relation is issued both backup
\* relations exist; when they did not both exist at the start of the run they were
\* created in the run, before any delete or insert, as copies of the live relations.
C2_BackupBeforeFirstDelete ==
    worker = "sync" =>
        /\ pc = "delete_groups" => Issued(Destructive) = {}
        /\ \A i \in Issued(Destructive) : \E j \in 1..i : ops[j] = "DELETE_GRP"
        /\ (pc = "delete_groups" \/ Issued(Destructive) # {}) =>
              /\ BothBackups(tx)
              /\ ~BothBackups(hist.pre) =>
                    /\ tx.grpBak.rows = hist.pre.grp
                    /\ tx.asgBak.rows = hist.pre.asg
                    /\ \A i \in Issued({"COPY_GRP_BAK", "COPY_ASG_BAK"}) :
                           \A j \in Issued(Destructive) : i < j

\* a sync that found one of the two backups missing has made both and has deleted
C2_Witness ==
    /\ worker = "sync"
    /\ pc = "max_id"
    /\ hist.pre.grpBak.exists
    /\ ~hist.pre.asgBak.exists
    /\ BothBackups(tx)
    /\ tx.asgBak.rows = hist.pre.asg
    /\ tx.grp # hist.pre.grp

\* C3: after a successful backup, then successful syncs, then a successful restore,
\* both live relations hold exactly the rows they held right after the backup, and
\* the restore reports those row counts.
C3_RestoreRoundTrip ==
    (Succeeded("restore") /\ hist.since = "bsr") =>
        /\ Live(db) = hist.snap
        /\ loc.group_count = BagCardinality(hist.snap.grp)
        /\ loc.assignment_count = BagCardinality(hist.snap.asg)

\* backup, a sync that changed both relations, restore
C3_Witness ==
    /\ hist.since = "bsr"
    /\ Succeeded("restore")
    /\ hist.synced.grp # hist.snap.grp
    /\ hist.synced.asg # hist.snap.asg
    /\ hist.snap.grp # EmptyBag
    /\ Live(db) = hist.snap

RestoreUnmet(d) ==
    \/ ~BothBackups(d)
    \/ d.grpBak.rows = EmptyBag /\ d.asgBak.rows = EmptyBag

NoBackupFound ==
    {"Restore failed: No drop group backup found! Please create a backup first.",
     "Restore failed: No assignment backup found! Please create a backup first."}

\* C4: a restore whose preconditions are unmet fails and touches nothing: with a
\* backup relation absent it fails with a no-backup error, with both present and
\* empty with an empty-backup error (a statement that raises fails the run with the
\* store's own error); no DELETE or INSERT is issued and the store is unchanged.
C4_RestoreRefusesUnmet ==
    /\ (worker = "restore" /\ RestoreUnmet(hist.pre)) =>
          /\ Issued(Destructive \cup {"COMMIT"}) = {}
          /\ tx = hist.pre
          /\ db = hist.pre
    /\ (Ended("restore") /\ RestoreUnmet(hist.pre)) =>
          /\ ~Head(finishedQ).ok
          /\ Issued(Destructive \cup {"COMMIT"}) = {}
          /\ db = hist.pre
          /\ Head(finishedQ).msg # "Restore failed: " \o DriverError =>
                IF ~BothBackups(hist.pre)
                THEN Head(finishedQ).msg \in NoBackupFound
                ELSE Head(finishedQ).msg = "Restore failed: Backup tables are empty!"

\* a restore has failed on two empty backups while the live relations hold rows
C4_Witness ==
    /\ Ended("restore")
    /\ Head(finishedQ).msg = "Restore failed: Backup tables are empty!"
    /\ BothBackups(db)
    /\ db.grp # EmptyBag
    /\ db.asg # EmptyBag
    /\ "COUNT_ASG_BAK" \in {ops[i] : i \in 1..Len(ops)}

C9_AssignmentRefersToGroup ==
    Succeeded("sync") =>
        \A a \in DOMAIN SyntheticAssignments(db.asg) :
            /\ \E g \in DOMAIN SyntheticGroups(db.grp) :
                   /\ g.RefItemGroupID = a.RefItemGroupID
                   /\ g.CodeName128 = a.ItemGroupCodeName128
            /\ \E k \in 1..Len(loc.created_groups) :
                   /\ loc.created_groups[k].val = a.RefItemGroupID
                   /\ GroupName(cfg.country_mixture, loc.created_groups[k].key)
                          = a.ItemGroupCodeName128

\* a sync has written assignments for two groups
C9_Witness ==
    /\ Succeeded("sync")
    /\ Cardinality({a.RefItemGroupID : a \in DOMAIN SyntheticAssignments(db.asg)}) >= 2

-----------------------------------------------------------------------------
(* Properties of the plan: which monster gets which group *)

Categories == {StarType, MoonType, SunType}

Enabled(t) == \E k \in 1..Len(cfg.rare_types) : cfg.rare_types[k] = t

\* the rare items of category t of the reference data
ItemsOf(t) ==
    {c \in catalog.common :
        /\ Like(c.CodeName128, "%_" \o t \o "_RARE%")
        /\ c.Service = 1 /\ c.TypeID1 = 3 /\ c.ReqLevel1 # NullCol}

\* the monsters of the reference data, with their level
MonstersIn ==
    {[ID |-> c.ID, Lvl |-> ch.Lvl, Country |-> c.Country] :
        <<c, ch>> \in {p \in catalog.common \X catalog.char :
                          /\ p[1].Link = p[2].ID
                          /\ Like(p[1].CodeName128, "MOB_%")
                          /\ p[1].TypeID1 = 1 /\ p[1].Service = 1}}

\* country codes 0 and 3 are one region, every other code is a region of its own
RegionClass(country) == IF country \in {0, 3} THEN 0 ELSE country

\* monster m lies in the level (and region) window of item i
InWindow(m, i) ==
    /\ m.Lvl >= Max2(0, i.ReqLevel1[1] - cfg.level_distance)
    /\ m.Lvl <= i.ReqLevel1[1] + cfg.level_distance
    /\ cfg.country_mixture \/ RegionClass(m.Country) = RegionClass(i.Country)

\* the level key an item is filed under
LevelKey(i) ==
    IF cfg.country_mixture THEN <<i.ReqLevel1[1], 0>>
    ELSE <<i.ReqLevel1[1], RegionClass(i.Country)>>

\* the identifiers of the RARE_-prefixed groups that hold an item of the set
GroupsHolding(items) ==
    {g.RefItemGroupID : g \in {r \in DOMAIN SyntheticGroups(db.grp) :
                                  r.RefItemID \in {i.ID : i \in items}}}

\* the RARE_-prefixed assignment rows of monster m for the groups of the set
AssignmentsTo(m, groups) ==
    BagWhere(SyntheticAssignments(db.asg),
             LAMBDA a : a.RefMonsterID = m.ID /\ a.RefItemGroupID \in groups)

\* C6 as stated: for every monster and enabled category a sync produces exactly one
\* group and one assignment when an item of the category lies in the monster's
\* window, and none when the window is empty.
C6_OnePerMonsterAndCategory ==
    Succeeded("sync") =>
        \A m \in MonstersIn : \A t \in Categories :
            Enabled(t) =>
                LET window   == {i \in ItemsOf(t) : InWindow(m, i)}
                    assigned == AssignmentsTo(m, GroupsHolding(ItemsOf(t)))
                IN  IF window # {}
                    THEN /\ BagCardinality(assigned) = 1
                         /\ Cardinality({a.RefItemGroupID : a \in DOMAIN assigned}) = 1
                    ELSE assigned = EmptyBag

\* C6 amended: groups are made per level key (category, item level and, in
\* region-aware mode, region) and shared by the monsters; for every monster and
\* enabled category a sync produces exactly one group and one assignment per level
\* key found among the category's items in the monster's window, and none when the
\* window is empty.
C6_OnePerLevelKey ==
    Succeeded("sync") =>
        \A m \in MonstersIn : \A t \in Categories :
            Enabled(t) =>
                LET window   == {i \in ItemsOf(t) : InWindow(m, i)}
                    keys     == {LevelKey(i) : i \in window}
                    assigned == AssignmentsTo(m, GroupsHolding(ItemsOf(t)))
                IN  /\ BagCardinality(assigned) = Cardinality(keys)
                    /\ Cardinality({a.RefItemGroupID : a \in DOMAIN assigned})
                           = Cardinality(keys)
                    /\ \A k \in keys :
                           BagCardinality(AssignmentsTo(m,
                               GroupsHolding({i \in ItemsOf(t) : LevelKey(i) = k}))) = 1
                    /\ \A k \in keys :
                           Cardinality(GroupsHolding({i \in ItemsOf(t) : LevelKey(i) = k})) = 1

\* a monster with two level keys of one category in its window, and one with none
C6_Witness ==
    /\ Succeeded("sync")
    /\ Enabled(StarType)
    /\ \E m \in MonstersIn :
           /\ Cardinality({LevelKey(i) : i \in {j \in ItemsOf(StarType) : InWindow(m, j)}}) = 2
           /\ BagCardinality(AssignmentsTo(m, GroupsHolding(ItemsOf(StarType)))) = 2
    /\ \E m \in MonstersIn :
           /\ {j \in ItemsOf(StarType) : InWindow(m, j)} = {}
           /\ AssignmentsTo(m, GroupsHolding(ItemsOf(StarType))) = EmptyBag

\* monster m has an assignment to a group that holds item i
Assigned(m, i) == AssignmentsTo(m, GroupsHolding({i})) # EmptyBag

\* the monsters of the scenario of C7 that may drop the level-50 Chinese item when
\* the level distance is 10: the Chinese ones of level 40, 50 and 60
ScenarioDroppers == {32, 33, 34}

\* C7: after a sync with level distance D, monster m is assigned a group that holds
\* item i if and only if i's category is enabled, m's level lies in
\* [max(0, level(i) - D), level(i) + D], and region mixing is on or m's and i's
\* country codes are of the same region (0 and 3, 1, any other N).  With D = 10 in
\* region-aware mode the level-50 Chinese item is dropped by the Chinese monsters of
\* level 40..60 only, not by the European monster of level 50.
C7_MatchingRule ==
    Succeeded("sync") =>
        /\ \A m \in MonstersIn : \A t \in Categories : \A i \in ItemsOf(t) :
               Assigned(m, i) <=> (Enabled(t) /\ InWindow(m, i))
        /\ (catalog = ScenarioCatalog /\ Enabled(StarType)
                /\ cfg.level_distance = 10 /\ ~cfg.country_mixture) =>
               {m.ID : m \in {n \in MonstersIn : \E i \in ItemsOf(StarType) : Assigned(n, i)}}
                   = ScenarioDroppers

\* the scenario has been synced: levels 40 and 60 drop the item, 39, 61 and the
\* European level 50 do not
C7_Witness ==
    /\ Succeeded("sync")
    /\ catalog = ScenarioCatalog
    /\ Enabled(StarType)
    /\ cfg.level_distance = 10
    /\ ~cfg.country_mixture
    /\ \A m \in MonstersIn : \A i \in ItemsOf(StarType) :
           Assigned(m, i) <=> m.ID \in ScenarioDroppers
    /\ {m.ID : m \in MonstersIn} = {31, 32, 33, 34, 35, 36}

\* the rows of one RARE_-prefixed group
MembersOf(group_id) ==
    BagWhere(SyntheticGroups(db.grp), LAMBDA r : r.RefItemGroupID = group_id)

SyntheticGroupIDs == {r.RefItemGroupID : r \in DOMAIN SyntheticGroups(db.grp)}

Abs(x) == IF x < 0 THEN 0 - x ELSE x

\* count * w and 1 agree above the low 27 bits of the mantissa
NearOne(w, count) ==
    count * w.hi + ((count * w.lo) \div Limb) - Pow(2, w.exp - 27) \in {0 - 1, 0}

\* C8 as stated: every group has a member, all members of a group carry the weight
\* 1/count, and the weights of a group sum to exactly 1.
C8_WeightsSumToOne ==
    Succeeded("sync") =>
        \A id \in SyntheticGroupIDs :
            LET count == BagCardinality(MembersOf(id))
            IN  /\ count >= 1
                /\ \A r \in DOMAIN MembersOf(id) :
                       SumDeviation(r.SelectRatio, count) = 0

\* C8 amended: every group has a member and all members of a group carry the same
\* weight, the double nearest to 1/count; the weights sum to 1 up to that rounding,
\* |count * w - 1| <= count * 2^-54, and to exactly 1 when count is a power of two.
C8_WeightsSumToOneRounded ==
    Succeeded("sync") =>
        \A id \in SyntheticGroupIDs :
            LET count == BagCardinality(MembersOf(id))
            IN  /\ count >= 1
                /\ Cardinality({r.SelectRatio : r \in DOMAIN MembersOf(id)}) = 1
                /\ \A r \in DOMAIN MembersOf(id) :
                       LET w == r.SelectRatio
                       IN  /\ w.hi >= Pow(2, 25) /\ w.hi < Pow(2, 26) /\ w.lo >= 0 /\ w.lo < Limb
                           /\ w.exp = 52 + CeilLog2(count)
                           /\ NearOne(w, count)
                           /\ 2 * Abs(SumDeviation(w, count)) <= count
                           /\ count \in {1, 2, 4, 8} => SumDeviation(w, count) = 0

\* a group of three members whose weights sum to 1 - 2^-54, beside a group of one
C8_Witness ==
    /\ Succeeded("sync")
    /\ \E id \in SyntheticGroupIDs :
           /\ BagCardinality(MembersOf(id)) = 3
           /\ \A r \in DOMAIN MembersOf(id) :
                  r.SelectRatio.exp = 54 /\ SumDeviation(r.SelectRatio, 3) = 0 - 1
    /\ \E id \in SyntheticGroupIDs : BagCardinality(MembersOf(id)) = 1

-----------------------------------------------------------------------------
(* Properties of concurrent starts *)

-----------------------------------------------------------------------------
(* Properties of the window and of a run as a whole *)

\* a worker of the window is running, or has ended and its finished signal has not
\* been handled yet
Active == worker # "none" \/ finishedQ # <<>>

\* C11: at most one worker is active at any time: from the start of a worker until
\* its completion message is handled the Apply, Update Backup and Restore buttons
\* are disabled, no handler starts a worker while one is active, and the buttons
\* are enabled again once the completion message has been handled.
C11_OneWorkerAtATime ==
    /\ Active => ~buttons.apply /\ ~buttons.backup /\ ~buttons.restore
    /\ ~Active => buttons.apply /\ buttons.backup /\ buttons.restore
    /\ (IF worker # "none" THEN 1 ELSE 0) + Len(finishedQ) <= 1

\* a later worker of the window is running after earlier completions were handled
C11_Witness ==
    /\ worker = "restore"
    /\ pc = "r_delete_grp"
    /\ budget < MaxRuns - 1
    /\ finishedQ = <<>>
    /\ buttons = AllDisabled

\* C12: a sync run issues exactly one commit, after its last delete and its last
\* insert; a sync run that reports failure has issued no commit, so nothing it
\* wrote is in the committed store.
C12_OneCommitNoneOnFailure ==
    /\ (worker = "sync" \/ Ended("sync")) =>
          /\ Cardinality(Issued({"COMMIT"})) <= 1
          /\ \A c \in Issued({"COMMIT"}) : \A j \in Issued(Destructive) : j < c
    /\ Succeeded("sync") => Cardinality(Issued({"COMMIT"})) = 1
    /\ (Ended("sync") /\ ~Head(finishedQ).ok) =>
          /\ Issued({"COMMIT"}) = {}
          /\ db = hist.pre

\* the positions of the finished signals among the signals of the current run
TerminalMessages == {i \in 1..Len(emitted) : emitted[i].sig = "finished"}

\* a running worker has emitted no finished signal; a run that has ended has emitted
\* exactly one, as its last signal
OneTerminalMessage ==
    /\ worker # "none" => TerminalMessages = {}
    /\ \A kind \in WorkerKinds :
           Ended(kind) =>
               /\ TerminalMessages = {Len(emitted)}
               /\ emitted[Len(emitted)].ok = Head(finishedQ).ok
               /\ emitted[Len(emitted)].msg = Head(finishedQ).msg

\* C13: every worker run (sync, backup, restore) emits exactly one terminal
\* completion message, on the success path and on every failure path, and no
\* progress event after it; every started run eventually ends with that message.
C13_OneTerminalMessage ==
    /\ []OneTerminalMessage
    /\ \A kind \in WorkerKinds : (worker = kind) ~> Ended(kind)

\* a restore has failed after emitting progress, with finished as its last signal
C13_Witness ==
    /\ Ended("restore")
    /\ ~Head(finishedQ).ok
    /\ Len(emitted) >= 3
    /\ TerminalMessages = {Len(emitted)}
    /\ "DELETE_GRP" \in {ops[i] : i \in 1..Len(ops)}

\* the two backup relations of a store
Backups(d) == [grpBak |-> d.grpBak, asgBak |-> d.asgBak]

\* a committed change of a backup relation is made by a backup run or by a sync run
\* that started with a backup relation missing
BackupsRewrittenOnlyBy ==
    Backups(db') # Backups(db) =>
        \/ worker = "backup"
        \/ worker = "sync" /\ ~BothBackups(hist.pre)

\* C14: a sync that starts while both backup relations exist leaves both unchanged,
\* in its transaction and in the committed store, so the snapshot taken by a backup
\* survives any number of successive syncs; only a backup run, or a sync that started
\* with a backup relation missing, rewrites them.
C14_SnapshotKept ==
    /\ []((((worker = "sync" /\ pc # "connect") \/ Ended("sync")) /\ BothBackups(hist.pre)) =>
             /\ Backups(tx) = Backups(hist.pre)
             /\ Backups(db) = Backups(hist.pre))
    /\ []((hist.since = "bs" /\ worker # "backup") =>
             /\ BothBackups(db)
             /\ db.grpBak.rows = hist.snap.grp
             /\ db.asgBak.rows = hist.snap.asg)
    /\ [][BackupsRewrittenOnlyBy]_vars

\* the second of two successful syncs after a backup: the live relations had moved
\* away from the snapshot before it started, and the snapshot is still what it was
C14_Witness ==
    /\ Succeeded("sync")
    /\ hist.since = "bs"
    /\ BothBackups(hist.pre)
    /\ hist.pre.grp # hist.snap.grp
    /\ db.grp # hist.pre.grp
    /\ db.grpBak.rows = hist.snap.grp
    /\ db.asgBak.rows = hist.snap.asg

\* both backup relations are copies of the whole live relations the run started with
BothCopied(d) ==
    /\ d.grpBak = Table(hist.pre.grp)
    /\ d.asgBak = Table(hist.pre.asg)

\* C15: a backup run replaces both backup relations, whatever they were, with a copy
\* of the entire live relations (rows without the RARE_ prefix included) and leaves
\* the live relations alone; the committed store never holds one rewritten backup
\* relation beside one that is not.
C15_BackupReplacesBoth ==
    /\ Succeeded("backup") => BothCopied(db) /\ Live(db) = Live(hist.pre)
    /\ (worker = "backup" /\ pc = "commit") => BothCopied(tx) /\ Live(tx) = Live(hist.pre)
    /\ (worker = "backup" \/ Ended("backup")) =>
          \/ Backups(db) = Backups(hist.pre)
          \/ BothCopied(db)
    /\ (worker = "backup" /\ Issued({"COMMIT"}) = {}) => db = hist.pre

\* a backup has replaced two backup relations that both held other rows, and the
\* copy holds rows without the prefix as well as rows with it
C15_Witness ==
    /\ Succeeded("backup")
    /\ BothBackups(hist.pre)
    /\ hist.pre.grpBak.rows # hist.pre.grp
    /\ hist.pre.asgBak.rows # hist.pre.asg
    /\ OtherGroups(db.grpBak.rows) # EmptyBag
    /\ SyntheticGroups(db.grpBak.rows) # EmptyBag
    /\ OtherAssignments(db.asgBak.rows) # EmptyBag
    /\ BothCopied(db)

\* what a group row says apart from its identifier: name, item, weight
GroupFact(r) == <<r.CodeName128, r.RefItemID, r.SelectRatio>>

\* what an assignment row says apart from its identifiers: monster, group name, ratio
AssignmentFact(r) == <<r.RefMonsterID, r.ItemGroupCodeName128, r.DropRatio>>

\* the RARE_-prefixed group rows as a bag of facts
GroupFacts(rows) ==
    [f \in {GroupFact(r) : r \in DOMAIN SyntheticGroups(rows)} |->
        BagCardinality(BagWhere(SyntheticGroups(rows), LAMBDA r : GroupFact(r) = f))]

\* the RARE_-prefixed assignment rows as a bag of facts
AssignmentFacts(rows) ==
    [f \in {AssignmentFact(r) : r \in DOMAIN SyntheticAssignments(rows)} |->
        BagCardinality(BagWhere(SyntheticAssignments(rows),
                                LAMBDA r : AssignmentFact(r) = f))]

\* C16: two successive successful syncs with the same configuration, over the same
\* reference data, leave the same RARE_-prefixed group rows as to (name, item,
\* weight) and the same RARE_-prefixed assignment rows as to (monster, group name,
\* ratio), each as many times; only identifiers may differ.
C16_SyncIdempotent ==
    (Succeeded("sync") /\ hist.prev # NoSync /\ hist.prev.cfg = hist.last.cfg) =>
        /\ hist.last.live = Live(db)
        /\ GroupFacts(hist.prev.live.grp) = GroupFacts(db.grp)
        /\ AssignmentFacts(hist.prev.live.asg) = AssignmentFacts(db.asg)

\* the second of two successful syncs with one configuration has written rows
C16_Witness ==
    /\ Succeeded("sync")
    /\ hist.prev # NoSync
    /\ hist.prev.cfg = hist.last.cfg
    /\ Len(loc.group_entries) >= 2
    /\ Len(loc.assignments) >= 2
    /\ "INSERT_ASG" \in {ops[i] : i \in 1..Len(ops)}
    /\ AssignmentFacts(db.asg) # EmptyBag

-----------------------------------------------------------------------------
(* Properties of the adjusted drop ratio.  The ratios are exact fractions;  *)
(* the program computes them in binary floating point, whose rounding is    *)
(* monotone and keeps the comparisons below.                                *)

\* the assignments appended so far, each with the level of its monster
Appended == 1..Len(loc.assignments)

LevelOf(i) == loc.monsters[i].Lvl

RatioOf(i) == loc.assignments[i].DropRatio

DecayEnabled == cfg.level_threshold > 0 /\ cfg.decrease_pct.num > 0

FloorOf(base) == FracMul(base, Frac(1, 100))

\* C17: the drop ratio of a monster is the base ratio, unchanged, when the
\* threshold is <= 0, or the decrease percentage is <= 0, or the level of the
\* monster is <= the threshold.
C17_BaseRatioKept ==
    \A i \in Appended :
        (cfg.level_threshold <= 0 \/ cfg.decrease_pct.num <= 0
             \/ LevelOf(i) <= cfg.level_threshold) =>
            RatioOf(i) = loc.drop_ratio

\* with decay enabled the monster at the threshold keeps the base ratio and a
\* monster above it has got less
C17_Witness ==
    /\ DecayEnabled
    /\ \E i, j \in Appended :
           /\ LevelOf(i) = cfg.level_threshold
           /\ RatioOf(i) = loc.drop_ratio
           /\ LevelOf(j) > cfg.level_threshold
           /\ RatioOf(j) # loc.drop_ratio

\* C18: with decay enabled the ratio is at least base * 0.01 at every level; with a
\* decrease of 100 percent it is exactly base * 0.01 at every level above the
\* threshold.
C18_FloorHolds ==
    DecayEnabled =>
        \A i \in Appended :
            /\ FracLeq(FloorOf(loc.drop_ratio), RatioOf(i))
            /\ (cfg.decrease_pct = Frac(100, 1) /\ LevelOf(i) > cfg.level_threshold) =>
                   RatioOf(i) = FloorOf(loc.drop_ratio)

\* a decrease of 90 percent: one monster is above the floor, a higher one is on it
C18_Witness ==
    /\ DecayEnabled
    /\ cfg.decrease_pct = Frac(90, 1)
    /\ \E i, j \in Appended :
           /\ LevelOf(i) = cfg.level_threshold + 1
           /\ RatioOf(i) = FracMul(loc.drop_ratio, Frac(1, 10))
           /\ LevelOf(j) = cfg.level_threshold + 4
           /\ RatioOf(j) = FloorOf(loc.drop_ratio)

\* C19: above the threshold the ratio does not increase with the level, and at no
\* level does it exceed the base ratio.
C19_NonIncreasing ==
    /\ \A i, j \in Appended :
           (cfg.level_threshold < LevelOf(i) /\ LevelOf(i) <= LevelOf(j)) =>
               FracLeq(RatioOf(j), RatioOf(i))
    /\ \A i \in Appended : FracLeq(RatioOf(i), loc.drop_ratio)

\* a decrease of 50 percent: three monsters above the threshold, each level with
\* strictly less than the one below
C19_Witness ==
    /\ DecayEnabled
    /\ cfg.decrease_pct = Frac(50, 1)
    /\ \E i, j, k \in Appended :
           /\ LevelOf(i) = cfg.level_threshold + 1
           /\ LevelOf(j) = cfg.level_threshold + 2
           /\ LevelOf(k) = cfg.level_threshold + 3
           /\ ~FracLeq(RatioOf(i), RatioOf(j))
           /\ ~FracLeq(RatioOf(j), RatioOf(k))
           /\ ~FracLeq(loc.drop_ratio, RatioOf(i))

-----------------------------------------------------------------------------
(* Properties of the validation in apply_drop_rates *)

\* the text is not a probability in (0, 1]
NotProbability(text) ==
    LET prob == FloatOfStr(StripStr(text))
    IN  \/ ~prob.ok
        \/ IsNaN(prob.val)
        \/ prob.val.num <= 0
        \/ prob.val.num > prob.val.den

\* the text is not an integer >= 0
NotLevel(text) ==
    LET level == IntOfStr(StripStr(text))
    IN  ~level.ok \/ level.val < 0

\* the text is not a percentage in [0, 100]
NotPercentage(text) ==
    LET pct == FloatOfStr(StripStr(text))
    IN  \/ ~pct.ok
        \/ IsNaN(pct.val)
        \/ pct.val.num < 0
        \/ pct.val.num > 100 * pct.val.den

\* a malformed configuration
Malformed(form) ==
    \/ ~form.star /\ ~form.moon /\ ~form.sun
    \/ form.star /\ NotProbability(form.star_prob)
    \/ form.moon /\ NotProbability(form.moon_prob)
    \/ form.sun /\ NotProbability(form.sun_prob)
    \/ NotLevel(form.level_distance)
    \/ NotLevel(form.level_threshold)
    \/ NotPercentage(form.decrease)

\* C20: apply_drop_rates on a malformed configuration (no category enabled, the
\* probability of an enabled category outside (0, 1], a level distance or a level
\* threshold < 0, a decrease outside [0, 100], or a field that is not a number)
\* returns without creating a worker, without disabling a control and without a
\* write to the store.
C20_MalformedRejected ==
    [][\A form \in MainForms, reply \in Replies :
           (Malformed(form) /\ apply_drop_rates(form, reply)) =>
               /\ worker' = worker
               /\ buttons' = buttons
               /\ cfg' = cfg
               /\ db' = db
               /\ tx' = tx]_vars

-----------------------------------------------------------------------------
(* Properties of the two insert loops *)

\* text t occurs in text s
Mentions(s, t) == \E i \in 1..(Len(s) - Len(t) + 1) : SubSeq(s, i, i + Len(t) - 1) = t

\* the sync run has failed at an INSERT that is not the first of its relation: the
\* last statement that succeeded is an INSERT and planned rows are left
FailedAtLaterBatch(stmt, inserted, planned) ==
    /\ Ended("sync")
    /\ ~Head(finishedQ).ok
    /\ ops # <<>>
    /\ ops[Len(ops)] = stmt
    /\ inserted < Len(planned)

\* the failure message names the index of the failing batch (the number of batches
\* of the relation written before it) and the number of rows written
NamesBatch(stmt, inserted) ==
    /\ Mentions(Head(finishedQ).msg, ToString(Cardinality(Issued({stmt}))))
    /\ Mentions(Head(finishedQ).msg, ToString(inserted))

\* C21: a failure during the batched inserts of a sync is reported with the index of
\* the failing batch and the number of rows already written.
C21_WriteErrorNamesBatch ==
    /\ FailedAtLaterBatch("INSERT_GRP", loc.inserted_items, loc.group_entries) =>
           NamesBatch("INSERT_GRP", loc.inserted_items)
    /\ FailedAtLaterBatch("INSERT_ASG", loc.inserted_assignments, loc.assignments) =>
           NamesBatch("INSERT_ASG", loc.inserted_assignments)

-----------------------------------------------------------------------------
(* Properties of the failure paths of a run *)

-----------------------------------------------------------------------------
(* Properties of the order of the statements of a sync run *)

CatalogReads == {"SELECT_ITEMS", "SELECT_MOBS"}

\* C23: a sync run plans in memory before it writes: every catalog read (the item
\* queries and every monster query, from whose rows the group and assignment rows
\* are built) is issued before the first DELETE or INSERT on a live relation.
C23_PlanBeforeWrite ==
    (worker = "sync" \/ Ended("sync")) =>
        \A r \in Issued(CatalogReads) : \A w \in Issued(Destructive) : r < w

\* C24: in a sync run exactly one bulk DELETE is issued per live relation, both
\* DELETEs are issued before the first INSERT of a planned row, and every group
\* INSERT is issued before the first assignment INSERT.
C24_DeleteThenInsert ==
    /\ (worker = "sync" \/ Ended("sync")) =>
          /\ Cardinality(Issued({"DELETE_GRP"})) <= 1
          /\ Cardinality(Issued({"DELETE_ASG"})) <= 1
          /\ \A d \in Issued({"DELETE_GRP", "DELETE_ASG"}) :
                 \A i \in Issued({"INSERT_GRP", "INSERT_ASG"}) : d < i
          /\ \A g \in Issued({"INSERT_GRP"}) : \A a \in Issued({"INSERT_ASG"}) : g < a
    /\ Succeeded("sync") =>
          /\ Cardinality(Issued({"DELETE_GRP"})) = 1
          /\ Cardinality(Issued({"DELETE_ASG"})) = 1

\* the number of "?" parameters of an INSERT that wrote the rows of bag b: one
\* per column of every row
ParamsWritten(b) ==
    IF b = EmptyBag THEN 0
    ELSE BagCardinality(b) * Cardinality(DOMAIN (CHOOSE row \in BagToSet(b) : TRUE))

InsertsBatch(before, after, inserted, planned, batch_size) ==
    LET rows == BagCardinality(after (-) before)
    IN  /\ rows >= 1
        /\ rows <= batch_size
        /\ ParamsWritten(after (-) before) < ParameterLimit
        /\ rows < batch_size => inserted = Len(planned)

\* C25: every INSERT of a sync stays under 2100 parameters: a group INSERT carries
\* at most 300 rows of 6 columns and an assignment INSERT at most 200 rows of 10
\* columns, no batch is empty, and only the last batch of a relation is smaller
\* than the batch size.
C25_InsertUnderLimit ==
    [][/\ DRW_InsertGroups =>
              /\ InsertsBatch(tx.grp, tx'.grp, loc'.inserted_items,
                              loc.group_entries, GroupBatchSize)
              /\ ParamsWritten(tx'.grp (-) tx.grp) <= GroupBatchSize * 6
       /\ DRW_InsertAssignments =>
              /\ InsertsBatch(tx.asg, tx'.asg, loc'.inserted_assignments,
                              loc.assignments, AssignBatchSize)
              /\ ParamsWritten(tx'.asg (-) tx.asg) <= AssignBatchSize * 10]_vars

C25_Witness ==
    /\ Running("sync", "commit")
    /\ Len(loc.assignments) = AssignBatchSize + 1
    /\ loc.inserted_assignments = AssignBatchSize + 1
    /\ Cardinality(Issued({"INSERT_ASG"})) = 2
    /\ BagCardinality(tx.asg) = BagCardinality(DeleteRareAssignments(db.asg)) + AssignBatchSize + 1

\* the percentage signal emitted by the step just taken: the first signal it appended
BatchSignal == emitted'[Len(emitted) + 1]

\* rows of the run's planned lists written so far, per relation
GroupsWritten(t) == BagCardinality(t.grp) - BagCardinality(DeleteRareGroups(db.grp))

AssignmentsWritten(t) == BagCardinality(t.asg) - BagCardinality(DeleteRareAssignments(db.asg))

PercentOf(written, planned) == (written * 100) \div planned

Allocated == [k \in 1..Len(loc.created_groups) |-> loc.created_groups[k].val]

HasAllocated == (worker = "sync" \/ Ended("sync")) /\ loc.created_groups # <<>>

\* the group rows stored when the run started that its DELETE leaves in place
Survivors == DeleteRareGroups(hist.pre.grp)

\* id is the largest identifier of the rows plus one, 1 when there are none
OneAboveMax(id, rows) ==
    IF DOMAIN rows = {} THEN id = 1
    ELSE /\ \E r \in DOMAIN rows : id = r.RefItemGroupID + 1
         /\ \A r \in DOMAIN rows : r.RefItemGroupID < id

DistinctIncreasingFresh ==
    /\ \A j, k \in 1..Len(Allocated) : j < k => Allocated[j] < Allocated[k]
    /\ \A k \in 1..Len(Allocated) :
           \A r \in DOMAIN Survivors : r.RefItemGroupID # Allocated[k]

C28_PreviewAgrees ==
    dialog = "Drop Probability Calculations" =>
        \A i \in 1..Len(loc.assignments) : \A j \in 1..Len(loc.probs) :
            loc.monsters[i].Lvl = loc.probs[j].level =>
                loc.assignments[i].DropRatio = loc.probs[j].actual_prob

\* the percentages of the progress_percent signals emitted so far, in order
Percentages ==
    LET shown == SelectSeq(emitted, LAMBDA s : s.sig = "progress_percent")
    IN  [k \in 1..Len(shown) |-> shown[k].pct]

\* C29: the percentages emitted during one sync run are integers within 0..100
\* and never decrease; 100 is emitted only after the commit was issued, and a run
\* that fails has not emitted 100.
C29_PercentagesRise ==
    (worker = "sync" \/ Ended("sync")) =>
        /\ \A k \in 1..Len(Percentages) : Percentages[k] \in 0..100
        /\ \A j, k \in 1..Len(Percentages) : j < k => Percentages[j] <= Percentages[k]
        /\ (\E k \in 1..Len(Percentages) : Percentages[k] = 100) =>
               Issued({"COMMIT"}) # {}
        /\ (Ended("sync") /\ ~Head(finishedQ).ok) =>
               \A k \in 1..Len(Percentages) : Percentages[k] # 100

\* a sync that made its backup first has gone through every phase, with one
\* batch of groups and one of assignments
C29_Witness ==
    /\ Succeeded("sync")
    /\ Percentages = <<2, 3, 5, 10, 15, 35, 35, 40, 90, 90, 100>>

\* the live relations of store d hold exactly the rows of its backups
LiveIsBackup(d) == BothBackups(d) /\ d.grp = d.grpBak.rows /\ d.asg = d.asgBak.rows

\* C30: a restore never modifies the backup relations; after a successful restore
\* both backups hold the rows they held before and each live relation equals its
\* backup; a restore that starts from the store a successful restore has left
\* leaves the live relations as they are.
C30_RestoreKeepsBackups ==
    /\ worker = "restore" => Backups(tx) = Backups(hist.pre) /\ Backups(db) = Backups(hist.pre)
    /\ Ended("restore") => Backups(db) = Backups(hist.pre)
    /\ Succeeded("restore") =>
          /\ LiveIsBackup(db)
          /\ LiveIsBackup(hist.pre) => Live(db) = Live(hist.pre)

\* the second of two successive restores has succeeded: of the stores the runs
\* start from, only a successful restore leaves these rows
C30_Witness ==
    /\ Succeeded("restore")
    /\ budget = MaxRuns - 2
    /\ LiveIsBackup(hist.pre)
    /\ hist.pre.grp = SetToBag({PotionGroup, RarestGroup})
    /\ hist.pre.asg = SetToBag({PotionDrop, RarestDrop})
    /\ Live(db) = Live(hist.pre)
    /\ Issued({"DELETE_GRP", "DELETE_ASG", "INSERT_GRP", "INSERT_ASG"}) # {}

=============================================================================
